---- MODULE Spec2Model ----
(***************************************************************************)
(* The REST back end of the real-estate CRM (src/backend/server.ts) over   *)
(* its relational schema and zod input schemas (src/backend/db.sql).       *)
(*                                                                         *)
(* JSON values are modelled as strings: text as itself, a number by its    *)
(* numeral ("0", "5"), a boolean by "true"/"false", an object by a string  *)
(* in Objects; Null is JSON/SQL null and Absent is JavaScript's undefined  *)
(* (a key that is not there).  Clock readings (created_at, updated_at) are *)
(* integers: seconds on the server clock.                                  *)
(***************************************************************************)
EXTENDS Integers, Sequences, FiniteSets, TLC

VARIABLES db, storage, now, issued, minted, last, focus, changes, removed, form,
          store, event

vars == <<db, storage, now, issued, minted, last, focus, changes, removed, form,
         store, event>>

(***************************************************************************)
(* Values                                                                  *)
(***************************************************************************)
Absent == "<undefined>"
Null == "<null>"

Numerals == {"0", "5", "500000", "750000", "1000000"}
Booleans == {"true", "false"}
Objects == {"{preferred_contact:email}", "{theme:dark}", "{theme:light}"}
EmailAddresses == {"admin@estatehub.co.uk", "john@estatehub.co.uk", "sam@estatehub.co.uk",
                   "mike@estatehub.co.uk", "alice@sample.co.uk", "charlie@sample.co.uk",
                   "new@sample.co.uk"}
Urls == {"https://picsum.photos/id1", "https://picsum.photos/new"}

\* new Date(v).toISOString() and its date part, for the date strings in use.
DateTable ==
  [d \in {"2023-10-05", "2024-05-01T10:30:00Z"} |->
     IF d = "2023-10-05"
     THEN [iso |-> "2023-10-05T00:00:00.000Z", day |-> "2023-10-05"]
     ELSE [iso |-> "2024-05-01T10:30:00.000Z", day |-> "2024-05-01"]]

JsonType(v) ==
  CASE v \in Numerals -> "number"
    [] v \in Booleans -> "boolean"
    [] v \in Objects -> "object"
    [] v = Null -> "null"
    [] v = Absent -> "undefined"
    [] OTHER -> "string"

\* JavaScript truthiness of a value: if (v), v || null.
Truthy(v) == v \notin {Absent, Null, "", "0", "false"}

OrNull(v) == IF Truthy(v) THEN v ELSE Null

\* node-postgres sends undefined as NULL.
PgValue(v) == IF v = Absent THEN Null ELSE v

\* z.coerce.date(): new Date(input) must be a valid date.
CoercesToDate(v) == v \in DOMAIN DateTable \/ JsonType(v) \in {"number", "boolean", "null"}

ToISOString(v) == IF v \in DOMAIN DateTable THEN DateTable[v].iso ELSE "1970-01-01T00:00:00.000Z"

ToISODay(v) == IF v \in DOMAIN DateTable THEN DateTable[v].day ELSE "1970-01-01"

Get(obj, k) == IF k \in DOMAIN obj THEN obj[k] ELSE Absent

Has(obj, k) == k \in DOMAIN obj

EmptyObject == [k \in {} |-> Absent]

(***************************************************************************)
(* zod schemas: a schema is a sequence of fields                           *)
(***************************************************************************)
Z(n, t, m, o, nl, d) ==
  [name |-> n, type |-> t, min1 |-> m, optional |-> o, nullable |-> nl, default |-> d]

ZString(n) == Z(n, "string", FALSE, FALSE, FALSE, Absent)
ZString1(n) == Z(n, "string", TRUE, FALSE, FALSE, Absent)
ZEmail(n) == Z(n, "email", FALSE, FALSE, FALSE, Absent)
ZUrl(n) == Z(n, "url", FALSE, FALSE, FALSE, Absent)
ZNumber(n) == Z(n, "number", FALSE, FALSE, FALSE, Absent)
ZDate(n) == Z(n, "date", FALSE, FALSE, FALSE, Absent)
ZBoolDefault(n, d) == Z(n, "boolean", FALSE, FALSE, FALSE, d)
ZAnyNullish(n) == Z(n, "any", FALSE, TRUE, TRUE, Absent)
Optional(f) == [f EXCEPT !.optional = TRUE]
Nullish(f) == [f EXCEPT !.optional = TRUE, !.nullable = TRUE]

\* A field check that forgets .min(1).
FieldOkWithoutMin(f, v) ==
  IF v = Absent THEN f.optional \/ f.default # Absent \/ f.type = "any"
  ELSE IF v = Null THEN f.nullable \/ f.type \in {"any", "date"}
  ELSE CASE f.type = "string" -> JsonType(v) = "string"
         [] f.type = "email" -> v \in EmailAddresses
         [] f.type = "url" -> v \in Urls
         [] f.type = "number" -> JsonType(v) = "number"
         [] f.type = "boolean" -> JsonType(v) = "boolean"
         [] f.type = "date" -> CoercesToDate(v)
         [] OTHER -> TRUE

\* One field of a schema against the value the input holds for it.
FieldOk(f, v) ==
  IF v = Absent THEN f.optional \/ f.default # Absent \/ f.type = "any"
  ELSE IF v = Null THEN f.nullable \/ f.type \in {"any", "date"}
  ELSE CASE f.type = "string" -> JsonType(v) = "string" /\ (f.min1 => v # "")
         [] f.type = "email" -> v \in EmailAddresses
         [] f.type = "url" -> v \in Urls
         [] f.type = "number" -> JsonType(v) = "number"
         [] f.type = "boolean" -> JsonType(v) = "boolean"
         [] f.type = "date" -> CoercesToDate(v)
         [] OTHER -> TRUE

SchemaNames(schema) == {schema[i].name : i \in 1..Len(schema)}

SchemaField(schema, n) == schema[CHOOSE i \in 1..Len(schema) : schema[i].name = n]

\* schema.parse(input) does not throw.
ZodOk(schema, input) == \A i \in 1..Len(schema) : FieldOk(schema[i], Get(input, schema[i].name))

\* The parsed object: unknown keys stripped, defaults filled in, a key that is
\* absent from the input (and has no default) absent from the result.
ZodParse(schema, input) ==
  LET keep == {n \in SchemaNames(schema) : Has(input, n) \/ SchemaField(schema, n).default # Absent}
  IN [n \in keep |-> IF Has(input, n) THEN input[n] ELSE SchemaField(schema, n).default]

createUserInputSchema ==
  <<ZString1("username"), ZEmail("email"), ZString1("password_hash"), ZString1("role")>>

updateUserInputSchema ==
  <<ZString("id"), Optional(ZString1("username")), Optional(ZEmail("email")),
    Optional(ZString1("password_hash")), Optional(ZString1("role"))>>

createClientInputSchema ==
  <<ZString1("first_name"), ZString1("last_name"), ZEmail("email"), ZString1("phone"),
    ZString1("address"), ZString1("status"), ZAnyNullish("additional_details")>>

updateClientInputSchema ==
  <<ZString("id"), Optional(ZString1("first_name")), Optional(ZString1("last_name")),
    Optional(ZEmail("email")), Optional(ZString1("phone")), Optional(ZString1("address")),
    Optional(ZString1("status")), ZAnyNullish("additional_details")>>

createClientPropertyInterestInputSchema ==
  <<ZString("client_id"), ZString1("property_type"), ZString1("preferred_location"),
    Nullish(ZNumber("price_min")), Nullish(ZNumber("price_max")),
    Nullish(ZString("additional_notes"))>>

updateClientPropertyInterestInputSchema ==
  <<ZString("id"), Optional(ZString("client_id")), Optional(ZString1("property_type")),
    Optional(ZString1("preferred_location")), Nullish(ZNumber("price_min")),
    Nullish(ZNumber("price_max")), Nullish(ZString("additional_notes"))>>

createPropertyInputSchema ==
  <<ZString1("address"), ZString1("property_type"), ZNumber("price"), ZString1("status"),
    Nullish(ZString("description"))>>

updatePropertyInputSchema ==
  <<ZString("id"), Optional(ZString1("address")), Optional(ZString1("property_type")),
    Optional(ZNumber("price")), Optional(ZString1("status")), Nullish(ZString("description"))>>

createAppointmentInputSchema ==
  <<ZString("client_id"), Nullish(ZString("property_id")), ZString("agent_id"),
    ZDate("appointment_date"), ZString1("appointment_time"), Nullish(ZString("notes")),
    ZBoolDefault("is_confirmed", "false")>>

updateAppointmentInputSchema ==
  <<ZString("id"), Optional(ZString("client_id")), Nullish(ZString("property_id")),
    Optional(ZString("agent_id")), Optional(ZDate("appointment_date")),
    Optional(ZString1("appointment_time")), Nullish(ZString("notes")),
    Optional(Z("is_confirmed", "boolean", FALSE, FALSE, FALSE, Absent))>>

createCommunicationLogInputSchema ==
  <<ZString("client_id"), ZString("user_id"), ZString1("communication_type"), ZString1("note"),
    ZBoolDefault("follow_up_flag", "false"), ZDate("timestamp")>>

updateCommunicationLogInputSchema ==
  <<ZString("id"), Optional(ZString("client_id")), Optional(ZString("user_id")),
    Optional(ZString1("communication_type")), Optional(ZString1("note")),
    Optional(Z("follow_up_flag", "boolean", FALSE, FALSE, FALSE, Absent)),
    Optional(ZDate("timestamp"))>>

createClientDocumentInputSchema ==
  <<ZString("client_id"), ZString1("document_name"), ZUrl("document_url"),
    ZString1("document_type")>>

updateClientDocumentInputSchema ==
  <<ZString("id"), Optional(ZString("client_id")), Optional(ZString1("document_name")),
    Optional(ZUrl("document_url")), Optional(ZString1("document_type"))>>

updateUserSettingsInputSchema ==
  <<ZString("id"), Optional(ZString("user_id")), ZAnyNullish("dashboard_preferences"),
    ZAnyNullish("notification_settings"), ZAnyNullish("configuration")>>

\* The login route's inline schema: username and password, both non-empty strings.
loginSchema == <<ZString1("username"), ZString1("password")>>

forgotPasswordSchema == <<ZEmail("email")>>

(***************************************************************************)
(* The database: one set of rows per table, with the schema's constraints  *)
(***************************************************************************)
Tables == {"users", "clients", "client_property_interests", "properties", "appointments",
           "communication_logs", "client_documents", "user_settings"}

Columns ==
  [users |-> {"id", "username", "email", "password_hash", "role", "created_at", "updated_at"},
   clients |-> {"id", "first_name", "last_name", "email", "phone", "address", "status",
                "additional_details", "created_at", "updated_at"},
   client_property_interests |-> {"id", "client_id", "property_type", "preferred_location",
                                  "price_min", "price_max", "additional_notes", "created_at"},
   properties |-> {"id", "address", "property_type", "price", "status", "description",
                   "created_at", "updated_at"},
   appointments |-> {"id", "client_id", "property_id", "agent_id", "appointment_date",
                     "appointment_time", "notes", "is_confirmed", "created_at", "updated_at"},
   communication_logs |-> {"id", "client_id", "user_id", "communication_type", "note",
                           "follow_up_flag", "timestamp"},
   client_documents |-> {"id", "client_id", "document_name", "document_url", "document_type",
                         "uploaded_at"},
   user_settings |-> {"id", "user_id", "dashboard_preferences", "notification_settings",
                      "configuration", "updated_at"}]

\* Columns the server stamps with its clock; they hold integers and are never null.
ClockColumns == {"created_at", "updated_at"}

\* NOT NULL columns, other than the clock columns.
NotNull ==
  [users |-> {"id", "username", "email", "password_hash", "role"},
   clients |-> {"id", "first_name", "last_name", "email", "phone", "address", "status"},
   client_property_interests |-> {"id", "client_id", "property_type", "preferred_location"},
   properties |-> {"id", "address", "property_type", "price", "status"},
   appointments |-> {"id", "client_id", "agent_id", "appointment_date", "appointment_time",
                     "is_confirmed"},
   communication_logs |-> {"id", "client_id", "user_id", "communication_type", "note",
                           "follow_up_flag", "timestamp"},
   client_documents |-> {"id", "client_id", "document_name", "document_url", "document_type",
                         "uploaded_at"},
   user_settings |-> {"id", "user_id"}]

\* A schema that declares no UNIQUE column.
NoUniqueColumns == [t \in Tables |-> {}]

UniqueColumns == [t \in Tables |-> IF t = "users" THEN {"username", "email"} ELSE {}]

\* A schema that declares no FOREIGN KEY.
NoForeignKeys == {}

ForeignKeys ==
  {[table |-> "client_property_interests", column |-> "client_id", ref |-> "clients"],
   [table |-> "appointments", column |-> "client_id", ref |-> "clients"],
   [table |-> "appointments", column |-> "property_id", ref |-> "properties"],
   [table |-> "appointments", column |-> "agent_id", ref |-> "users"],
   [table |-> "communication_logs", column |-> "client_id", ref |-> "clients"],
   [table |-> "communication_logs", column |-> "user_id", ref |-> "users"],
   [table |-> "client_documents", column |-> "client_id", ref |-> "clients"],
   [table |-> "user_settings", column |-> "user_id", ref |-> "users"]}

Ids(d, t) == {r.id : r \in d[t]}

\* The row satisfies the table's constraints beside the rows `others`.
RowAllowed(d, t, row, others) ==
  /\ row.id \notin {r.id : r \in others}
  /\ \A c \in NotNull[t] : row[c] # Null
  /\ \A c \in UniqueColumns[t] : \A r \in others : r[c] # row[c]
  /\ \A fk \in ForeignKeys :
       fk.table = t => (row[fk.column] = Null \/ row[fk.column] \in Ids(d, fk.ref))

\* A statement's result: the error flag, the rows of RETURNING *, the database after.
SqlResult(e, rows, d) == [error |-> e, rows |-> rows, db |-> d]

\* INSERT INTO t (...) VALUES (...) RETURNING *
SqlInsert(d, t, row) ==
  IF RowAllowed(d, t, row, d[t])
  THEN SqlResult(FALSE, {row}, [d EXCEPT ![t] = @ \cup {row}])
  ELSE SqlResult(TRUE, {}, d)

\* An update that writes the whole row back: the columns it does not set are
\* written as null where the table allows it, instead of being left alone.
SqlUpdateWholeRow(d, t, id, sets) ==
  LET old == {r \in d[t] : r.id = id}
      upd(r) == [c \in DOMAIN r |-> IF c \in DOMAIN sets THEN sets[c]
                                    ELSE IF c \in NotNull[t] \cup ClockColumns \cup {"id"} THEN r[c]
                                    ELSE Null]
      new == {upd(r) : r \in old}
  IN SqlResult(FALSE, new, [d EXCEPT ![t] = (@ \ old) \cup new])

\* UPDATE t SET <sets> WHERE id = <id> RETURNING *; an empty SET list is a syntax error.
SqlUpdate(d, t, id, sets) ==
  LET old == {r \in d[t] : r.id = id}
      upd(r) == [c \in DOMAIN r |-> IF c \in DOMAIN sets THEN sets[c] ELSE r[c]]
      new == {upd(r) : r \in old}
  IN IF DOMAIN sets = {} THEN SqlResult(TRUE, {}, d)
     ELSE IF \E r \in new : ~RowAllowed(d, t, r, d[t] \ old) THEN SqlResult(TRUE, {}, d)
     ELSE SqlResult(FALSE, new, [d EXCEPT ![t] = (@ \ old) \cup new])

\* DELETE ... RETURNING * that reports the row and leaves it in the table.
SqlDeleteKeeping(d, t, id) == SqlResult(FALSE, {r \in d[t] : r.id = id}, d)

\* DELETE FROM t WHERE id = <id> RETURNING *; a referenced row cannot be deleted
\* (the foreign keys declare no ON DELETE action).
SqlDelete(d, t, id) ==
  LET old == {r \in d[t] : r.id = id}
      referenced == \E fk \in ForeignKeys : fk.ref = t /\ \E r \in d[fk.table] : r[fk.column] = id
  IN IF old # {} /\ referenced THEN SqlResult(TRUE, {}, d)
     ELSE SqlResult(FALSE, old, [d EXCEPT ![t] = @ \ old])

(***************************************************************************)
(* Passwords and tokens                                                    *)
(***************************************************************************)
\* jwt.sign(..., { expiresIn: '1h' }): the token's lifetime in seconds.
TokenTTL == 3600

\* bcrypt.hash(p, 10) and bcrypt.compare(p, h); the salt is left out.
BcryptHash(p) == "$2a$10$" \o p

BcryptCompare(p, h) == h = BcryptHash(p)

\* What the Authorization header carries: nothing, a string that is no token
\* signed with JWT_SECRET, or a signed token with its payload.
NoToken == [kind |-> "none", id |-> "", role |-> "", exp |-> 0]
Garbage == [kind |-> "garbage", id |-> "", role |-> "", exp |-> 0]

JwtSign(id, role, t) == [kind |-> "jwt", id |-> id, role |-> role, exp |-> t + TokenTTL]

\* A verification that reads the clock in milliseconds.
JwtVerifyMillis(tok, t) == tok.kind = "jwt" /\ t * 1000 < tok.exp

\* jwt.verify: the signature is right and the expiry is still ahead.
JwtVerify(tok, t) == tok.kind = "jwt" /\ t < tok.exp

(***************************************************************************)
(* Requests, responses, outcomes                                           *)
(***************************************************************************)
Request(m, p, a, b, q, f) ==
  [method |-> m, path |-> p, auth |-> a, body |-> b, query |-> q, file |-> f]

Json(status, body) == [status |-> status, type |-> "json", body |-> body]

Message(status, m) == Json(status, [message |-> m])

\* res.sendStatus(code): the status with its reason phrase as a text body.
SendStatus(status) ==
  [status |-> status, type |-> "text",
   body |-> [message |-> IF status = 401 THEN "Unauthorized" ELSE "Forbidden"]]

\* What serving a request leaves behind: the tables, the upload directory, the
\* response, and the token the response carries (NoToken when it carries none).
Outcome(d, st, res) == [db |-> d, storage |-> st, res |-> res, token |-> NoToken]

Reply(s, res) == Outcome(s.db, s.storage, res)

\* authenticateToken: 0 when the request goes on to the route, else the status sent.
authenticateToken(req, t) ==
  IF req.auth.kind = "none" THEN 401
  ELSE IF ~JwtVerify(req.auth, t) THEN 403
  ELSE 0

\* A check of the token that also looks the user up and wants the stored role
\* to be the token's.
ProtectedCurrent(s, req, outcomes) ==
  IF authenticateToken(req, s.now) # 0
  THEN {Reply(s, SendStatus(authenticateToken(req, s.now)))}
  ELSE IF \A u \in s.db.users : u.id = req.auth.id => u.role # req.auth.role
  THEN {Reply(s, SendStatus(403))}
  ELSE outcomes

\* A route behind authenticateToken.
Protected(s, req, outcomes) ==
  IF authenticateToken(req, s.now) # 0
  THEN {Reply(s, SendStatus(authenticateToken(req, s.now)))}
  ELSE outcomes

(***************************************************************************)
(* Route handlers.  s is the server's state as the request finds it:       *)
(* [db, storage, now, uuid]; each handler gives the set of its outcomes.   *)
(***************************************************************************)
\* A login that tells an unknown identifier from a wrong password.
PostAuthLoginTelling(s, req) ==
  IF ~ZodOk(loginSchema, req.body) THEN {Reply(s, Message(400, "ZodError"))}
  ELSE
    LET rows == {u \in s.db.users : u.username = req.body.username \/ u.email = req.body.username}
    IN IF rows = {} THEN {Reply(s, Message(404, "User not found"))}
       ELSE {IF ~BcryptCompare(req.body.password, u.password_hash)
             THEN Reply(s, Message(401, "Authentication failed"))
             ELSE [db |-> s.db, storage |-> s.storage,
                   res |-> Json(200, [token |-> JwtSign(u.id, u.role, s.now), user |-> u]),
                   token |-> JwtSign(u.id, u.role, s.now)]
             : u \in rows}

PostAuthLogin(s, req) ==
  IF ~ZodOk(loginSchema, req.body) THEN {Reply(s, Message(400, "ZodError"))}
  ELSE
    LET rows == {u \in s.db.users : u.username = req.body.username \/ u.email = req.body.username}
    IN IF rows = {} THEN {Reply(s, Message(401, "Authentication failed"))}
       ELSE {IF ~BcryptCompare(req.body.password, u.password_hash)
             THEN Reply(s, Message(401, "Authentication failed"))
             ELSE [db |-> s.db, storage |-> s.storage,
                   res |-> Json(200, [token |-> JwtSign(u.id, u.role, s.now), user |-> u]),
                   token |-> JwtSign(u.id, u.role, s.now)]
             : u \in rows}

PostAuthLogout(s, req) ==
  Protected(s, req, {Reply(s, Message(200, "Logout successful"))})

\* The mail provider either takes the message or fails; nothing is stored.
PostAuthForgotPassword(s, req) ==
  IF ~ZodOk(forgotPasswordSchema, req.body) THEN {Reply(s, Message(400, "ZodError"))}
  ELSE {Reply(s, Message(200, "Password reset link sent to your email.")),
        Reply(s, Message(400, "MailError"))}

\* try { parse; INSERT ... RETURNING * } catch -> 400
Create(s, req, table, schema, newRow) ==
  IF ~ZodOk(schema, req.body) THEN {Reply(s, Message(400, "ZodError"))}
  ELSE
    LET r == SqlInsert(s.db, table, newRow)
    IN IF r.error THEN {Reply(s, Message(400, "DatabaseError"))}
       ELSE {Outcome(r.db, s.storage, Json(201, CHOOSE row \in r.rows : TRUE))}

\* SELECT * FROM table WHERE column = :id, answered with rows[0].
Read(s, req, table, column, notFound) ==
  LET rows == {r \in s.db[table] : r[column] = req.path[2]}
  IN IF rows = {} THEN {Reply(s, Message(404, notFound))}
     ELSE {Reply(s, Json(200, row)) : row \in rows}

\* { id: req.params.id, ...req.body }: a key id of the body wins.
PutInput(req) == req.body @@ [id |-> req.path[2]]

\* try { parse({id, ...body}); UPDATE ... SET <sets> WHERE id RETURNING * } catch -> 400
Update(s, req, table, schema, sets, notFound) ==
  LET input == PutInput(req)
  IN IF ~ZodOk(schema, input) THEN {Reply(s, Message(400, "ZodError"))}
     ELSE
       LET r == SqlUpdate(s.db, table, req.path[2], sets)
       IN IF r.error THEN {Reply(s, Message(400, "DatabaseError"))}
          ELSE IF r.rows = {} THEN {Reply(s, Message(404, notFound))}
          ELSE {Outcome(r.db, s.storage, Json(200, CHOOSE row \in r.rows : TRUE))}

\* DELETE FROM table WHERE id RETURNING *
Delete(s, req, table, notFound, deleted) ==
  LET r == SqlDelete(s.db, table, req.path[2])
  IN IF r.error THEN {Reply(s, Message(400, "DatabaseError"))}
     ELSE IF r.rows = {} THEN {Reply(s, Message(404, notFound))}
     ELSE {Outcome(r.db, s.storage, Message(200, deleted))}

\* if (cond) { fields.push(col = $n); values.push(v) }
SetIf(cond, col, v) == IF cond THEN [c \in {col} |-> v] ELSE EmptyObject

\* if (parsed.col) ...
SetTruthy(p, col) == SetIf(Truthy(Get(p, col)), col, Get(p, col))

\* if ('col' in parsed) ...
SetPresent(p, col) == SetIf(Has(p, col), col, Get(p, col))

Forbidden(s) == {Reply(s, Message(403, "Forbidden"))}

\* ---- users
PostUsersRow(p, id, t) ==
  [id |-> id, username |-> p.username, email |-> p.email,
   password_hash |-> BcryptHash(p.password_hash), role |-> p.role,
   created_at |-> t, updated_at |-> t]

PostUsers(s, req) ==
  Protected(s, req,
    IF req.auth.role # "admin" THEN Forbidden(s)
    ELSE Create(s, req, "users", createUserInputSchema,
        PostUsersRow(ZodParse(createUserInputSchema, req.body), s.uuid, s.now)))

GetUsersId(s, req) == Protected(s, req, Read(s, req, "users", "id", "User not found"))

PutUsersSets(p, t) ==
  SetTruthy(p, "username") @@ SetTruthy(p, "email")
  @@ SetIf(Truthy(Get(p, "password_hash")), "password_hash", BcryptHash(Get(p, "password_hash")))
  @@ SetTruthy(p, "role") @@ [updated_at |-> t]

\* A PUT of a user that looks for the row before it looks at the role.
PutUsersIdLooking(s, req) ==
  Protected(s, req,
    IF req.path[2] \notin Ids(s.db, "users") THEN {Reply(s, Message(404, "User not found"))}
    ELSE IF req.auth.role # "admin" THEN Forbidden(s)
    ELSE Update(s, req, "users", updateUserInputSchema,
        PutUsersSets(ZodParse(updateUserInputSchema, PutInput(req)), s.now), "User not found"))

PutUsersId(s, req) ==
  Protected(s, req,
    IF req.auth.role # "admin" THEN Forbidden(s)
    ELSE Update(s, req, "users", updateUserInputSchema,
        PutUsersSets(ZodParse(updateUserInputSchema, PutInput(req)), s.now), "User not found"))

\* A DELETE of a user that does not look at the role.
DeleteUsersIdAnyRole(s, req) ==
  Protected(s, req, Delete(s, req, "users", "User not found", "User deleted successfully"))

DeleteUsersId(s, req) ==
  Protected(s, req,
    IF req.auth.role # "admin" THEN Forbidden(s)
    ELSE Delete(s, req, "users", "User not found", "User deleted successfully"))

\* ---- clients
PostClientsRow(p, id, t) ==
  [id |-> id, first_name |-> p.first_name, last_name |-> p.last_name, email |-> p.email,
   phone |-> p.phone, address |-> p.address, status |-> p.status,
   additional_details |-> OrNull(Get(p, "additional_details")),
   created_at |-> t, updated_at |-> t]

PostClients(s, req) ==
  Protected(s, req, Create(s, req, "clients", createClientInputSchema,
      PostClientsRow(ZodParse(createClientInputSchema, req.body), s.uuid, s.now)))

GetClientsId(s, req) == Protected(s, req, Read(s, req, "clients", "id", "Client not found"))

\* A PUT that writes additional_details whether the body names it or not.
PutClientsSetsOverwriting(p, t) ==
  SetTruthy(p, "first_name") @@ SetTruthy(p, "last_name") @@ SetTruthy(p, "email")
  @@ SetTruthy(p, "phone") @@ SetTruthy(p, "address") @@ SetTruthy(p, "status")
  @@ [additional_details |-> PgValue(Get(p, "additional_details")), updated_at |-> t]

PutClientsSets(p, t) ==
  SetTruthy(p, "first_name") @@ SetTruthy(p, "last_name") @@ SetTruthy(p, "email")
  @@ SetTruthy(p, "phone") @@ SetTruthy(p, "address") @@ SetTruthy(p, "status")
  @@ SetPresent(p, "additional_details") @@ [updated_at |-> t]

PutClientsId(s, req) ==
  Protected(s, req,
    Update(s, req, "clients", updateClientInputSchema,
        PutClientsSets(ZodParse(updateClientInputSchema, PutInput(req)), s.now),
        "Client not found"))

DeleteClientsId(s, req) ==
  Protected(s, req, Delete(s, req, "clients", "Client not found", "Client deleted successfully"))

\* ---- client property interests
PostClientPropertyInterestsRow(p, id, t) ==
  [id |-> id, client_id |-> p.client_id, property_type |-> p.property_type,
   preferred_location |-> p.preferred_location, price_min |-> PgValue(Get(p, "price_min")),
   price_max |-> PgValue(Get(p, "price_max")),
   additional_notes |-> PgValue(Get(p, "additional_notes")), created_at |-> t]

PostClientPropertyInterests(s, req) ==
  Protected(s, req,
    Create(s, req, "client_property_interests", createClientPropertyInterestInputSchema,
           PostClientPropertyInterestsRow(ZodParse(createClientPropertyInterestInputSchema,
                                                   req.body), s.uuid, s.now)))

GetClientPropertyInterestsId(s, req) ==
  Protected(s, req, Read(s, req, "client_property_interests", "id", "Record not found"))

PutClientPropertyInterestsSets(p, t) ==
  SetTruthy(p, "property_type") @@ SetTruthy(p, "preferred_location")
  @@ SetPresent(p, "price_min") @@ SetPresent(p, "price_max")
  @@ SetPresent(p, "additional_notes")

PutClientPropertyInterestsId(s, req) ==
  Protected(s, req,
    Update(s, req, "client_property_interests", updateClientPropertyInterestInputSchema,
           PutClientPropertyInterestsSets(ZodParse(updateClientPropertyInterestInputSchema,
                                                   PutInput(req)), s.now),
           "Record not found"))

DeleteClientPropertyInterestsId(s, req) ==
  Protected(s, req,
    Delete(s, req, "client_property_interests", "Record not found",
           "Record deleted successfully"))

\* ---- properties
PostPropertiesRow(p, id, t) ==
  [id |-> id, address |-> p.address, property_type |-> p.property_type, price |-> p.price,
   status |-> p.status, description |-> OrNull(Get(p, "description")),
   created_at |-> t, updated_at |-> t]

PostProperties(s, req) ==
  Protected(s, req, Create(s, req, "properties", createPropertyInputSchema,
      PostPropertiesRow(ZodParse(createPropertyInputSchema, req.body), s.uuid, s.now)))

GetPropertiesId(s, req) ==
  Protected(s, req, Read(s, req, "properties", "id", "Property not found"))

PutPropertiesSets(p, t) ==
  SetTruthy(p, "address") @@ SetTruthy(p, "property_type") @@ SetTruthy(p, "price")
  @@ SetTruthy(p, "status") @@ SetPresent(p, "description") @@ [updated_at |-> t]

PutPropertiesId(s, req) ==
  Protected(s, req,
    Update(s, req, "properties", updatePropertyInputSchema,
        PutPropertiesSets(ZodParse(updatePropertyInputSchema, PutInput(req)), s.now),
           "Property not found"))

DeletePropertiesId(s, req) ==
  Protected(s, req,
    Delete(s, req, "properties", "Property not found", "Property deleted successfully"))

\* ---- appointments
PostAppointmentsRow(p, id, t) ==
  [id |-> id, client_id |-> p.client_id, property_id |-> OrNull(Get(p, "property_id")),
   agent_id |-> p.agent_id, appointment_date |-> ToISODay(p.appointment_date),
   appointment_time |-> p.appointment_time, notes |-> OrNull(Get(p, "notes")),
   is_confirmed |-> p.is_confirmed, created_at |-> t, updated_at |-> t]

PostAppointments(s, req) ==
  Protected(s, req,
    Create(s, req, "appointments", createAppointmentInputSchema,
        PostAppointmentsRow(ZodParse(createAppointmentInputSchema, req.body), s.uuid, s.now)))

GetAppointmentsId(s, req) ==
  Protected(s, req, Read(s, req, "appointments", "id", "Appointment not found"))

\* parsed.appointment_date is a Date object, truthy whenever the key is there.
PutAppointmentsSets(p, t) ==
  SetTruthy(p, "client_id") @@ SetPresent(p, "property_id") @@ SetTruthy(p, "agent_id")
  @@ SetIf(Has(p, "appointment_date"), "appointment_date", ToISODay(Get(p, "appointment_date")))
  @@ SetTruthy(p, "appointment_time") @@ SetPresent(p, "notes")
  @@ SetPresent(p, "is_confirmed") @@ [updated_at |-> t]

PutAppointmentsId(s, req) ==
  Protected(s, req,
    Update(s, req, "appointments", updateAppointmentInputSchema,
        PutAppointmentsSets(ZodParse(updateAppointmentInputSchema, PutInput(req)), s.now),
           "Appointment not found"))

DeleteAppointmentsId(s, req) ==
  Protected(s, req,
    Delete(s, req, "appointments", "Appointment not found", "Appointment deleted successfully"))

\* ---- communication logs
PostCommunicationLogsRow(p, id, t) ==
  [id |-> id, client_id |-> p.client_id, user_id |-> p.user_id,
   communication_type |-> p.communication_type, note |-> p.note,
   follow_up_flag |-> p.follow_up_flag, timestamp |-> ToISOString(p.timestamp)]

PostCommunicationLogs(s, req) ==
  Protected(s, req,
    Create(s, req, "communication_logs", createCommunicationLogInputSchema,
           PostCommunicationLogsRow(ZodParse(createCommunicationLogInputSchema,
                                             req.body), s.uuid, s.now)))

GetCommunicationLogsId(s, req) ==
  Protected(s, req, Read(s, req, "communication_logs", "id", "Log not found"))

PutCommunicationLogsSets(p, t) ==
  SetTruthy(p, "communication_type") @@ SetTruthy(p, "note") @@ SetPresent(p, "follow_up_flag")
  @@ SetIf(Has(p, "timestamp"), "timestamp", ToISOString(Get(p, "timestamp")))

PutCommunicationLogsId(s, req) ==
  Protected(s, req,
    Update(s, req, "communication_logs", updateCommunicationLogInputSchema,
           PutCommunicationLogsSets(ZodParse(updateCommunicationLogInputSchema,
                                             PutInput(req)), s.now),
           "Log not found"))

DeleteCommunicationLogsId(s, req) ==
  Protected(s, req,
    Delete(s, req, "communication_logs", "Log not found",
           "Communication log deleted successfully"))

\* ---- client documents
\* uploaded_at is no key of the create schema, so parsed.uploaded_at is undefined.
PostClientDocumentsRow(p, id, t) ==
  [id |-> id, client_id |-> p.client_id, document_name |-> p.document_name,
   document_url |-> p.document_url, document_type |-> p.document_type,
   uploaded_at |-> PgValue(Get(p, "uploaded_at"))]

PostClientDocuments(s, req) ==
  Protected(s, req,
    Create(s, req, "client_documents", createClientDocumentInputSchema,
        PostClientDocumentsRow(ZodParse(createClientDocumentInputSchema, req.body), s.uuid, s.now)))

GetClientDocumentsId(s, req) ==
  Protected(s, req, Read(s, req, "client_documents", "id", "Document not found"))

PutClientDocumentsSets(p, t) ==
  SetTruthy(p, "document_name") @@ SetTruthy(p, "document_url") @@ SetTruthy(p, "document_type")

PutClientDocumentsId(s, req) ==
  Protected(s, req,
    Update(s, req, "client_documents", updateClientDocumentInputSchema,
        PutClientDocumentsSets(ZodParse(updateClientDocumentInputSchema, PutInput(req)), s.now),
           "Document not found"))

DeleteClientDocumentsId(s, req) ==
  Protected(s, req,
    Delete(s, req, "client_documents", "Document not found",
           "Client document deleted successfully"))

\* ---- user settings (read by user_id, written by id)
GetUserSettingsUserId(s, req) ==
  Protected(s, req, Read(s, req, "user_settings", "user_id", "Settings not found"))

PutUserSettingsSets(p, t) ==
  SetTruthy(p, "dashboard_preferences") @@ SetTruthy(p, "notification_settings")
  @@ SetTruthy(p, "configuration") @@ [updated_at |-> t]

PutUserSettingsId(s, req) ==
  Protected(s, req,
    Update(s, req, "user_settings", updateUserSettingsInputSchema,
        PutUserSettingsSets(ZodParse(updateUserSettingsInputSchema, PutInput(req)), s.now),
           "Settings not found"))

(***************************************************************************)
(* List routes                                                             *)
(***************************************************************************)
\* search<Entity>InputSchema.parse(req.query).  Express hands every query-string
\* value over as a string, and z.number() takes no string: a request that
\* names limit or offset fails the parse.
SearchOk(q, sortColumns) ==
  /\ ~Has(q, "limit") /\ ~Has(q, "offset")
  /\ Has(q, "sort_by") => q.sort_by \in sortColumns
  /\ Has(q, "sort_order") => q.sort_order \in {"asc", "desc"}

SearchParse(q) ==
  [query |-> Get(q, "query"), limit |-> 10, offset |-> 0,
   sort_by |-> IF Has(q, "sort_by") THEN q.sort_by ELSE "created_at",
   sort_order |-> IF Has(q, "sort_order") THEN q.sort_order ELSE "desc"]

\* text ILIKE %q%, for the search words in use.
Infixes == {<<"ali", "Alice">>, <<"ali", "alice@sample.co.uk">>, <<"john", "agent_john">>,
            <<"john", "john@estatehub.co.uk">>, <<"baker", "123 Baker Street">>}

ILike(text, q) == text = q \/ <<q, text>> \in Infixes

\* The order of the database's collation on the texts in use.
Collation ==
  <<"1 King Street", "123 Baker Street", "456 High Street", "789 Low Street",
    "admin@estatehub.co.uk", "admin_user", "agent_john", "Alice", "Chaplin", "Charlie",
    "john@estatehub.co.uk", "manager_mike", "mike@estatehub.co.uk",
    "new@sample.co.uk", "sam@estatehub.co.uk", "support_sam", "Wonderland", "Zed">>

NumeralValue(v) ==
  CASE v = "0" -> 0 [] v = "5" -> 5 [] v = "500000" -> 500000 [] v = "750000" -> 750000
    [] v = "1000000" -> 1000000 [] OTHER -> 0

SortRank(column, v) ==
  IF column \in ClockColumns THEN v
  ELSE IF column = "price" THEN NumeralValue(v)
  ELSE IF \E i \in 1..Len(Collation) : Collation[i] = v
       THEN CHOOSE i \in 1..Len(Collation) : Collation[i] = v
       ELSE 0

\* Every order ORDER BY column <order> may return the rows in: rows that tie on
\* the column come in any order.
RECURSIVE OrderBy(_, _, _)
OrderBy(rows, column, order) ==
  IF rows = {} THEN {<<>>}
  ELSE LET first == {r \in rows : \A o \in rows :
                       IF order = "asc" THEN SortRank(column, r[column]) <= SortRank(column, o[column])
                       ELSE SortRank(column, r[column]) >= SortRank(column, o[column])}
       IN UNION {{<<r>> \o rest : rest \in OrderBy(rows \ {r}, column, order)} : r \in first}

\* LIMIT n OFFSET k
LimitOffset(seq, n, k) ==
  SubSeq(seq, k + 1, IF Len(seq) < k + n THEN Len(seq) ELSE k + n)

\* The paginated search of users, clients and properties.
Search(s, req, table, textColumns, sortColumns) ==
  IF ~SearchOk(req.query, sortColumns) THEN {Reply(s, Message(400, "ZodError"))}
  ELSE
    LET p == SearchParse(req.query)
        hits == IF Truthy(p.query)
                THEN {r \in s.db[table] : \E c \in textColumns : ILike(r[c], p.query)}
                ELSE s.db[table]
    IN {Reply(s, Json(200, LimitOffset(rows, p.limit, p.offset)))
        : rows \in OrderBy(hits, p.sort_by, p.sort_order)}

\* The lists that filter on exact matches of query parameters, without ORDER BY:
\* the body stands for the rows in whatever order the database returns them.
Filter(s, req, table, filters) ==
  {Reply(s, Json(200, {r \in s.db[table] :
                         \A f \in filters :
                           Truthy(Get(req.query, f.param)) => r[f.column] = req.query[f.param]}))}

GetUsers(s, req) ==
  Protected(s, req,
    IF req.auth.role # "admin" /\ req.auth.role # "manager" THEN Forbidden(s)
    ELSE Search(s, req, "users", {"username", "email"}, {"username", "email", "created_at"}))

GetClients(s, req) ==
  Protected(s, req,
    Search(s, req, "clients", {"first_name", "last_name", "email"},
           {"first_name", "last_name", "created_at"}))

GetProperties(s, req) ==
  Protected(s, req,
    Search(s, req, "properties", {"address", "property_type"}, {"address", "price", "created_at"}))

GetClientPropertyInterests(s, req) ==
  Protected(s, req,
    Filter(s, req, "client_property_interests", {[param |-> "client_id", column |-> "client_id"]}))

GetAppointments(s, req) ==
  Protected(s, req,
    Filter(s, req, "appointments",
           {[param |-> "client_id", column |-> "client_id"],
            [param |-> "agent_id", column |-> "agent_id"],
            [param |-> "date", column |-> "appointment_date"]}))

GetCommunicationLogs(s, req) ==
  Protected(s, req,
    Filter(s, req, "communication_logs",
           {[param |-> "client_id", column |-> "client_id"],
            [param |-> "communication_type", column |-> "communication_type"]}))

GetClientDocuments(s, req) ==
  Protected(s, req,
    Filter(s, req, "client_documents", {[param |-> "client_id", column |-> "client_id"]}))

(***************************************************************************)
(* Bulk transfer                                                           *)
(***************************************************************************)
\* An import that also inserts a client for the sheet's row.
PostClientsImportInserting(s, req) ==
  Protected(s, req,
    IF req.file # "sheet" \/ req.auth.role \notin {"admin", "support"} THEN Forbidden(s)
    ELSE {Outcome([s.db EXCEPT !.clients = @ \cup {[(CHOOSE r \in @ : TRUE) EXCEPT !.id = s.uuid]}],
                  s.storage,
                  Json(200, [message |-> "Bulk import completed successfully",
                             data |-> "rows of the sheet"]))})

\* authenticateToken, then upload.single('file') puts the uploaded file into
\* ./storage, then the handler: role check, read the sheet, unlink the file.
\* req.file is "none" (no file part), "sheet" or "unreadable" (XLSX.readFile throws).
PostClientsImport(s, req) ==
  Protected(s, req,
    LET stored == IF req.file = "none" THEN s.storage ELSE s.storage + 1
    IN IF req.auth.role # "admin" /\ req.auth.role # "support"
       THEN {Outcome(s.db, stored, Message(403, "Forbidden"))}
       ELSE IF req.file = "none" THEN {Outcome(s.db, stored, Message(400, "TypeError"))}
       ELSE IF req.file = "unreadable" THEN {Outcome(s.db, stored, Message(400, "ReadError"))}
       ELSE {Outcome(s.db, stored - 1,
                     Json(200, [message |-> "Bulk import completed successfully",
                                data |-> "rows of the sheet"]))})

\* header: the column names; one line per client row.
GetClientsExport(s, req) ==
  Protected(s, req,
    IF req.auth.role # "admin" /\ req.auth.role # "support" THEN Forbidden(s)
    ELSE IF s.db.clients = {} THEN {Reply(s, Message(404, "No clients found for export"))}
    ELSE {Reply(s, [status |-> 200, type |-> "csv",
                    body |-> [header |-> Columns.clients, lines |-> s.db.clients]])})

(***************************************************************************)
(* Routing: Express tries the routes in the order they were registered     *)
(***************************************************************************)
Route(m, p, n) == [method |-> m, pattern |-> p, name |-> n]

Routes ==
  <<Route("POST", <<"auth", "login">>, "PostAuthLogin"),
    Route("POST", <<"auth", "logout">>, "PostAuthLogout"),
    Route("POST", <<"auth", "forgot-password">>, "PostAuthForgotPassword"),
    Route("POST", <<"users">>, "PostUsers"),
    Route("GET", <<"users">>, "GetUsers"),
    Route("GET", <<"users", ":id">>, "GetUsersId"),
    Route("PUT", <<"users", ":id">>, "PutUsersId"),
    Route("DELETE", <<"users", ":id">>, "DeleteUsersId"),
    Route("POST", <<"clients">>, "PostClients"),
    Route("GET", <<"clients">>, "GetClients"),
    Route("GET", <<"clients", ":id">>, "GetClientsId"),
    Route("PUT", <<"clients", ":id">>, "PutClientsId"),
    Route("DELETE", <<"clients", ":id">>, "DeleteClientsId"),
    Route("POST", <<"clients", "import">>, "PostClientsImport"),
    Route("GET", <<"clients", "export">>, "GetClientsExport"),
    Route("POST", <<"client-property-interests">>, "PostClientPropertyInterests"),
    Route("GET", <<"client-property-interests">>, "GetClientPropertyInterests"),
    Route("GET", <<"client-property-interests", ":id">>, "GetClientPropertyInterestsId"),
    Route("PUT", <<"client-property-interests", ":id">>, "PutClientPropertyInterestsId"),
    Route("DELETE", <<"client-property-interests", ":id">>, "DeleteClientPropertyInterestsId"),
    Route("POST", <<"properties">>, "PostProperties"),
    Route("GET", <<"properties">>, "GetProperties"),
    Route("GET", <<"properties", ":id">>, "GetPropertiesId"),
    Route("PUT", <<"properties", ":id">>, "PutPropertiesId"),
    Route("DELETE", <<"properties", ":id">>, "DeletePropertiesId"),
    Route("POST", <<"appointments">>, "PostAppointments"),
    Route("GET", <<"appointments">>, "GetAppointments"),
    Route("GET", <<"appointments", ":id">>, "GetAppointmentsId"),
    Route("PUT", <<"appointments", ":id">>, "PutAppointmentsId"),
    Route("DELETE", <<"appointments", ":id">>, "DeleteAppointmentsId"),
    Route("POST", <<"communication-logs">>, "PostCommunicationLogs"),
    Route("GET", <<"communication-logs">>, "GetCommunicationLogs"),
    Route("GET", <<"communication-logs", ":id">>, "GetCommunicationLogsId"),
    Route("PUT", <<"communication-logs", ":id">>, "PutCommunicationLogsId"),
    Route("DELETE", <<"communication-logs", ":id">>, "DeleteCommunicationLogsId"),
    Route("POST", <<"client-documents">>, "PostClientDocuments"),
    Route("GET", <<"client-documents">>, "GetClientDocuments"),
    Route("GET", <<"client-documents", ":id">>, "GetClientDocumentsId"),
    Route("PUT", <<"client-documents", ":id">>, "PutClientDocumentsId"),
    Route("DELETE", <<"client-documents", ":id">>, "DeleteClientDocumentsId"),
    Route("GET", <<"user-settings", ":user_id">>, "GetUserSettingsUserId"),
    Route("PUT", <<"user-settings", ":id">>, "PutUserSettingsId")>>

\* A path parameter takes any non-empty segment.
RouteMatches(route, req) ==
  /\ route.method = req.method
  /\ Len(route.pattern) = Len(req.path)
  /\ \A i \in 1..Len(route.pattern) :
       IF route.pattern[i] \in {":id", ":user_id"} THEN req.path[i] # ""
       ELSE route.pattern[i] = req.path[i]

\* The first registered route that matches, "none" when no route does.
RouteOf(req) ==
  LET hits == {i \in 1..Len(Routes) : RouteMatches(Routes[i], req)}
  IN IF hits = {} THEN "none"
     ELSE Routes[CHOOSE i \in hits : \A j \in hits : i <= j].name

\* Past the routes: express.static and app.get('*') answer a GET with the
\* single-page application, Express answers anything else with 404.
NoRoute(s, req) ==
  IF req.method = "GET"
  THEN {Reply(s, [status |-> 200, type |-> "html", body |-> [message |-> "index.html"]])}
  ELSE {Reply(s, [status |-> 404, type |-> "html", body |-> [message |-> "Cannot " \o req.method]])}

Handle(s, req) ==
  LET n == RouteOf(req)
  IN CASE n = "PostAuthLogin" -> PostAuthLogin(s, req)
       [] n = "PostAuthLogout" -> PostAuthLogout(s, req)
       [] n = "PostAuthForgotPassword" -> PostAuthForgotPassword(s, req)
       [] n = "PostUsers" -> PostUsers(s, req)
       [] n = "GetUsers" -> GetUsers(s, req)
       [] n = "GetUsersId" -> GetUsersId(s, req)
       [] n = "PutUsersId" -> PutUsersId(s, req)
       [] n = "DeleteUsersId" -> DeleteUsersId(s, req)
       [] n = "PostClients" -> PostClients(s, req)
       [] n = "GetClients" -> GetClients(s, req)
       [] n = "GetClientsId" -> GetClientsId(s, req)
       [] n = "PutClientsId" -> PutClientsId(s, req)
       [] n = "DeleteClientsId" -> DeleteClientsId(s, req)
       [] n = "PostClientsImport" -> PostClientsImport(s, req)
       [] n = "GetClientsExport" -> GetClientsExport(s, req)
       [] n = "PostClientPropertyInterests" -> PostClientPropertyInterests(s, req)
       [] n = "GetClientPropertyInterests" -> GetClientPropertyInterests(s, req)
       [] n = "GetClientPropertyInterestsId" -> GetClientPropertyInterestsId(s, req)
       [] n = "PutClientPropertyInterestsId" -> PutClientPropertyInterestsId(s, req)
       [] n = "DeleteClientPropertyInterestsId" -> DeleteClientPropertyInterestsId(s, req)
       [] n = "PostProperties" -> PostProperties(s, req)
       [] n = "GetProperties" -> GetProperties(s, req)
       [] n = "GetPropertiesId" -> GetPropertiesId(s, req)
       [] n = "PutPropertiesId" -> PutPropertiesId(s, req)
       [] n = "DeletePropertiesId" -> DeletePropertiesId(s, req)
       [] n = "PostAppointments" -> PostAppointments(s, req)
       [] n = "GetAppointments" -> GetAppointments(s, req)
       [] n = "GetAppointmentsId" -> GetAppointmentsId(s, req)
       [] n = "PutAppointmentsId" -> PutAppointmentsId(s, req)
       [] n = "DeleteAppointmentsId" -> DeleteAppointmentsId(s, req)
       [] n = "PostCommunicationLogs" -> PostCommunicationLogs(s, req)
       [] n = "GetCommunicationLogs" -> GetCommunicationLogs(s, req)
       [] n = "GetCommunicationLogsId" -> GetCommunicationLogsId(s, req)
       [] n = "PutCommunicationLogsId" -> PutCommunicationLogsId(s, req)
       [] n = "DeleteCommunicationLogsId" -> DeleteCommunicationLogsId(s, req)
       [] n = "PostClientDocuments" -> PostClientDocuments(s, req)
       [] n = "GetClientDocuments" -> GetClientDocuments(s, req)
       [] n = "GetClientDocumentsId" -> GetClientDocumentsId(s, req)
       [] n = "PutClientDocumentsId" -> PutClientDocumentsId(s, req)
       [] n = "DeleteClientDocumentsId" -> DeleteClientDocumentsId(s, req)
       [] n = "GetUserSettingsUserId" -> GetUserSettingsUserId(s, req)
       [] n = "PutUserSettingsId" -> PutUserSettingsId(s, req)
       [] OTHER -> NoRoute(s, req)

(***************************************************************************)
(* The initial database: rows of the seed script, one or more per table;   *)
(* the password hashes are bcrypt hashes of the users' passwords, the seed *)
(* timestamps lie before every reading of the server clock                 *)
(***************************************************************************)
User(id, username, email, password, role) ==
  [id |-> id, username |-> username, email |-> email, password_hash |-> BcryptHash(password),
   role |-> role, created_at |-> -1, updated_at |-> -1]

Seed ==
  [users |-> {User("u1", "admin_user", "admin@estatehub.co.uk", "admin-pw", "admin"),
              User("u2", "agent_john", "john@estatehub.co.uk", "john-pw", "agent"),
              User("u4", "support_sam", "sam@estatehub.co.uk", "sam-pw", "support"),
              User("u5", "manager_mike", "mike@estatehub.co.uk", "mike-pw", "manager")},
   clients |-> {[id |-> "c1", first_name |-> "Alice", last_name |-> "Wonderland",
                 email |-> "alice@sample.co.uk", phone |-> "07123456789",
                 address |-> "123 Baker Street", status |-> "active",
                 additional_details |-> "{preferred_contact:email}",
                 created_at |-> -1, updated_at |-> -1],
                [id |-> "c3", first_name |-> "Charlie", last_name |-> "Chaplin",
                 email |-> "charlie@sample.co.uk", phone |-> "07894561234",
                 address |-> "789 Low Street", status |-> "active",
                 additional_details |-> Null,
                 created_at |-> -1, updated_at |-> -1]},
   client_property_interests |-> {[id |-> "cpi1", client_id |-> "c1",
                 property_type |-> "residential", preferred_location |-> "London",
                 price_min |-> "500000", price_max |-> "1000000",
                 additional_notes |-> "Looking for a garden", created_at |-> -1]},
   properties |-> {[id |-> "p1", address |-> "1 King Street", property_type |-> "residential",
                 price |-> "750000", status |-> "available", description |-> "Town house",
                 created_at |-> -1, updated_at |-> -1],
                [id |-> "p2", address |-> "456 High Street", property_type |-> "commercial",
                 price |-> "500000", status |-> "sold", description |-> "Prime location",
                 created_at |-> -1, updated_at |-> -1]},
   appointments |-> {[id |-> "a1", client_id |-> "c1", property_id |-> "p1", agent_id |-> "u2",
                 appointment_date |-> "2023-10-05", appointment_time |-> "14:00",
                 notes |-> "First viewing", is_confirmed |-> "true",
                 created_at |-> -1, updated_at |-> -1]},
   communication_logs |-> {[id |-> "cl1", client_id |-> "c1", user_id |-> "u2",
                 communication_type |-> "email", note |-> "Sent property brochure",
                 follow_up_flag |-> "false", timestamp |-> "2023-10-05T00:00:00.000Z"]},
   client_documents |-> {[id |-> "cd1", client_id |-> "c1", document_name |-> "ID Proof",
                 document_url |-> "https://picsum.photos/id1", document_type |-> "id",
                 uploaded_at |-> "2023-10-05T00:00:00.000Z"]},
   user_settings |-> {[id |-> "us1", user_id |-> "u1", dashboard_preferences |-> "{theme:dark}",
                 notification_settings |-> Null, configuration |-> Null, updated_at |-> -1]}]

Passwords == [u1 |-> "admin-pw", u2 |-> "john-pw", u4 |-> "sam-pw", u5 |-> "mike-pw"]

(***************************************************************************)
(* Bounds of the explored workload                                         *)
(***************************************************************************)
\* Requests per behaviour that change the tables or the upload directory or
\* that issue a token (the two logins of scope "stale" are not counted).
MaxChanges == 2

\* Clock ticks per behaviour; a tick is half a token lifetime.
MaxTicks == 2

TickStep == TokenTTL \div 2

\* v4(): identifiers no row has had before.
Uuid(n) == "id-" \o ToString(n)

\* No exchange in progress.
Idle ==
  [req |-> Request("", <<>>, NoToken, EmptyObject, EmptyObject, "none"),
   res |-> [status |-> 0, type |-> "", body |-> EmptyObject]]

State == [db |-> db, storage |-> storage, now |-> now, uuid |-> Uuid(minted)]

\* A behaviour exercises the routes of one table as one logged-in user, or
\* (scope "access") sends plain requests to every route as one of the four
\* roles, or (scope "anonymous") sends them without a token and with a string
\* that is no token, and tries to log in with right and wrong credentials, or
\* (scope "form") submits the client form once, or (scope "stale") has the
\* manager and the admin logged in while the admin changes or deletes the
\* manager, or (scope "store") is a browser session that logs in and out and
\* works on the client-side store.
Focuses ==
  {[scope |-> t, user |-> IF t = "users" THEN "u1" ELSE "u2"] : t \in Tables}
    \cup {[scope |-> "access", user |-> u] : u \in {"u1", "u2", "u4", "u5"}}
    \cup {[scope |-> "anonymous", user |-> "u2"]}
    \cup {[scope |-> "form", user |-> "u2"]}
    \cup {[scope |-> "stale", user |-> "u5"]}
    \cup {[scope |-> "store", user |-> "u2"]}

(***************************************************************************)
(* The client-side store: store/main.tsx                                   *)
(***************************************************************************)
\* The store as created: nobody logged in (the empty token is the one a
\* request without an Authorization header carries), no notification, empty
\* settings.
DefaultStore ==
  [auth |-> [token |-> NoToken,
             user |-> [id |-> "", username |-> "", email |-> "", role |-> "",
                       created_at |-> "", updated_at |-> ""],
             is_authenticated |-> FALSE],
   notifications |-> <<>>,
   user_settings |-> [dashboard_preferences |-> EmptyObject,
                      notification_settings |-> EmptyObject,
                      configuration |-> EmptyObject]]

\* set({ auth: new_auth })
set_auth(state, new_auth) == [state EXCEPT !.auth = new_auth]

reset_auth(state) == [state EXCEPT !.auth = DefaultStore.auth]

\* An addition at the front of the list.
add_notificationFirst(state, notification) ==
  [state EXCEPT !.notifications = <<notification>> \o @]

\* [...state.notifications, notification]
add_notification(state, notification) ==
  [state EXCEPT !.notifications = Append(@, notification)]

\* state.notifications.filter((notif) => notif.id !== id)
remove_notification(state, id) ==
  LET Other(notif) == notif.id # id
  IN [state EXCEPT !.notifications = SelectSeq(@, Other)]

clear_notifications(state) == [state EXCEPT !.notifications = <<>>]

\* { ...state.user_settings, ...settings }: the keys of settings replace those
\* of the same name.
update_user_settings(state, settings) ==
  [state EXCEPT !.user_settings = settings @@ @]

\* ProtectedRoute and PublicRoute of App.tsx: what the wrapper renders.
ProtectedRoute(state) ==
  IF ~state.auth.is_authenticated THEN "Navigate /login" ELSE "children"

PublicRoute(state) ==
  IF state.auth.is_authenticated THEN "Navigate /dashboard" ELSE "children"

\* Notifications held by the store per behaviour.
MaxNotifications == 2

\* The last event of the browser session: the handler that ran, its argument
\* and the store it found.
NoEvent == [name |-> "", arg |-> EmptyObject, from |-> DefaultStore]

\* The client form before its submission: no request sent, no client known.
FormReady == [pc |-> "ready", token |-> NoToken, entry |-> EmptyObject, client |-> Absent]

Init ==
  /\ db = Seed
  /\ storage = 0
  /\ now = 0
  /\ issued = {}
  /\ minted = 0
  /\ last = Idle
  /\ focus \in Focuses
  /\ changes = 0
  /\ removed = {}
  /\ form = FormReady
  /\ store = DefaultStore
  /\ event = NoEvent

(***************************************************************************)
(* The requests clients send                                               *)
(***************************************************************************)
\* The table behind the first segment of a path, "" for the auth routes.
TableOf(segment) ==
  CASE segment = "users" -> "users"
    [] segment = "clients" -> "clients"
    [] segment = "client-property-interests" -> "client_property_interests"
    [] segment = "properties" -> "properties"
    [] segment = "appointments" -> "appointments"
    [] segment = "communication-logs" -> "communication_logs"
    [] segment = "client-documents" -> "client_documents"
    [] segment = "user-settings" -> "user_settings"
    [] OTHER -> ""

CreateSchema(t) ==
  CASE t = "users" -> createUserInputSchema
    [] t = "clients" -> createClientInputSchema
    [] t = "client_property_interests" -> createClientPropertyInterestInputSchema
    [] t = "properties" -> createPropertyInputSchema
    [] t = "appointments" -> createAppointmentInputSchema
    [] t = "communication_logs" -> createCommunicationLogInputSchema
    [] t = "client_documents" -> createClientDocumentInputSchema
    [] OTHER -> <<ZString("user_id"), ZAnyNullish("dashboard_preferences")>>

UpdateSchema(t) ==
  CASE t = "users" -> updateUserInputSchema
    [] t = "clients" -> updateClientInputSchema
    [] t = "client_property_interests" -> updateClientPropertyInterestInputSchema
    [] t = "properties" -> updatePropertyInputSchema
    [] t = "appointments" -> updateAppointmentInputSchema
    [] t = "communication_logs" -> updateCommunicationLogInputSchema
    [] t = "client_documents" -> updateClientDocumentInputSchema
    [] OTHER -> updateUserSettingsInputSchema

\* A value the field's schema takes and that differs from the seed's.
Fresh(f) ==
  CASE f.name = "client_id" -> "c1"
    [] f.name = "property_id" -> "p1"
    [] f.name \in {"agent_id", "user_id"} -> "u4"
    [] f.name = "role" -> "manager"
    [] f.type = "string" -> "Zed"
    [] f.type = "email" -> "new@sample.co.uk"
    [] f.type = "url" -> "https://picsum.photos/new"
    [] f.type = "number" -> "5"
    [] f.type = "boolean" -> IF f.name = "is_confirmed" THEN "false" ELSE "true"
    [] f.type = "date" -> "2024-05-01T10:30:00Z"
    [] OTHER -> "{theme:light}"

\* The values tried for a field: the fresh one, the empty string or zero, null
\* where the schema speaks of null, a name and an address another user has.
Samples(f) ==
  {Fresh(f)}
    \cup (IF f.type \in {"string", "email", "url", "date"} THEN {""} ELSE {})
    \cup (IF f.type = "number" THEN {"0"} ELSE {})
    \cup (IF f.nullable \/ f.type = "any" THEN {Null} ELSE {})
    \cup (IF f.name = "username" THEN {"support_sam", "sam@estatehub.co.uk"} ELSE {})
    \cup (IF f.name = "email" THEN {"sam@estatehub.co.uk"} ELSE {})

Without(obj, k) == [x \in DOMAIN obj \ {k} |-> obj[x]]

With(obj, k, v) == [x \in DOMAIN obj \cup {k} |-> IF x = k THEN v ELSE obj[x]]

\* The required fields, each with its fresh value.
Plain(schema) ==
  [n \in {schema[i].name : i \in {j \in 1..Len(schema) :
                                    ~schema[j].optional /\ schema[j].default = Absent
                                      /\ schema[j].name # "id"}}
     |-> Fresh(SchemaField(schema, n))]

\* Every field with its fresh value.
Full(schema) == [n \in SchemaNames(schema) \ {"id"} |-> Fresh(SchemaField(schema, n))]

\* POST bodies: the plain body, the full one, and the plain one with one field
\* left out or set to each of its samples.
CreateBodies(t) ==
  LET schema == CreateSchema(t)
  IN {Plain(schema), Full(schema)}
       \cup {Without(Plain(schema), n) : n \in DOMAIN Plain(schema)}
       \cup UNION {{With(Plain(schema), n, v) : v \in Samples(SchemaField(schema, n))}
                   : n \in SchemaNames(schema)}

\* PUT bodies: the empty body, the full one, and every body of one field.
UpdateBodies(t) ==
  LET schema == UpdateSchema(t)
  IN {EmptyObject, Full(schema)}
       \cup UNION {{[x \in {n} |-> v] : v \in Samples(SchemaField(schema, n))}
                   : n \in SchemaNames(schema) \ {"id"}}

\* Query strings of the list routes.
Queries(t) ==
  IF t \in {"users", "clients", "properties"}
  THEN {EmptyObject, [limit |-> "5"], [sort_by |-> "id"], [query |-> ""],
        [limit |-> "1", offset |-> "0"], [limit |-> "1", offset |-> "1"], [limit |-> "0"],
        [query |-> IF t = "users" THEN "john" ELSE IF t = "clients" THEN "ali" ELSE "baker"],
        [sort_by |-> IF t = "users" THEN "username" ELSE IF t = "clients" THEN "last_name" ELSE "price",
         sort_order |-> "asc"]}
  ELSE IF t = "user_settings" THEN {EmptyObject}
  ELSE {EmptyObject, [client_id |-> "c1"], [client_id |-> "missing"]}

\* What stands in for a path parameter: the rows of the table (of the users,
\* the agent and the manager), an id no row has, the settings' owner, the ids
\* of the rows deleted so far.
PathIds(t) ==
  (Ids(db, t) \ (IF t = "users" THEN {"u1", "u4"} ELSE {}))
    \cup {"missing"} \cup (IF t = "user_settings" THEN {"u1"} ELSE {})
    \cup {g[2] : g \in {h \in removed : h[1] = t}}

Paths(pattern, ids) ==
  IF Len(pattern) = 2 /\ pattern[2] \in {":id", ":user_id"}
  THEN {<<pattern[1], id>> : id \in ids}
  ELSE {pattern}

\* The Authorization headers in use: the tokens handed out so far or, in
\* scope "anonymous", none at all and a string that is no token.
Authorizations == IF focus.scope = "anonymous" THEN {NoToken, Garbage} ELSE issued

Broad == focus.scope \in {"access", "anonymous"}

LoginBodies ==
  LET u == CHOOSE u \in Seed.users : u.id = focus.user
  IN IF focus.scope = "stale"
     THEN {[username |-> v.username, password |-> Passwords[v.id]]
           : v \in {w \in Seed.users : w.id \in {"u1", "u5"} /\ \A tok \in issued : tok.id # w.id}}
     ELSE
     {[username |-> u.username, password |-> Passwords[u.id]]}
       \cup (IF focus.scope # "anonymous" THEN {}
             ELSE {[username |-> u.email, password |-> Passwords[u.id]],
                   [username |-> u.username, password |-> "wrong"],
                   [username |-> "nobody", password |-> Passwords[u.id]],
                   [username |-> "nobody", password |-> "wrong"],
                   [username |-> u.username], [username |-> "", password |-> "wrong"]})

\* The requests sent to a route's method and pattern.  In its table's scope a
\* route gets every body and query; in the broad scopes it gets one request
\* that would succeed and one for a row that is not there.  Scope "access"
\* keeps to the row that is not there outside the users table, whose routes
\* are the ones that look at the role.  The seed rows nothing refers to (c3,
\* p2) are read and deleted, and updated by the client form only.  Up to the
\* first write after the login a table's routes get every body, after it the
\* plain, the full and the empty one.
RequestsTo(route) ==
  LET t == TableOf(route.pattern[1])
      full == focus.scope = t
      probe == focus.scope = "access" /\ t # "users"
  IN IF focus.scope = "store" THEN {}
     ELSE IF focus.scope = "stale" /\ route.name # "PostAuthLogin"
     THEN (IF t # "users" THEN {}
           ELSE {Request(route.method, p, a, b, EmptyObject, "none")
                 : p \in Paths(route.pattern, {"u5", "missing"}),
                   a \in Authorizations,
                   b \in (IF route.method = "PUT" THEN {[role |-> "agent"]} ELSE {EmptyObject})})
     ELSE IF ~full /\ ~Broad /\ route.name # "PostAuthLogin" THEN {}
     ELSE IF route.name = "PostAuthLogin"
     THEN {Request("POST", route.pattern, NoToken, b, EmptyObject, "none") : b \in LoginBodies}
     ELSE IF route.name = "PostAuthForgotPassword"
     THEN {Request("POST", route.pattern, NoToken, b, EmptyObject, "none")
           : b \in IF focus.scope # "anonymous" THEN {}
                    ELSE {[email |-> "john@estatehub.co.uk"], [email |-> "nobody"], EmptyObject}}
     ELSE IF route.name = "PostClientsImport"
     THEN {Request("POST", route.pattern, a, EmptyObject, EmptyObject, f)
           : a \in Authorizations, f \in {"none", "sheet", "unreadable"}}
     ELSE {Request(route.method, p, a, b, q, "none")
           : p \in Paths(route.pattern,
                         IF probe THEN {"missing"}
                         ELSE IF route.method = "PUT" THEN PathIds(t) \ {"c3", "p2"}
                         ELSE PathIds(t)),
             a \in Authorizations,
             b \in (IF route.method = "POST"
                    THEN (IF full /\ changes < 2 THEN CreateBodies(t)
                          ELSE IF full THEN {Plain(CreateSchema(t)), Full(CreateSchema(t))}
                          ELSE IF probe THEN {EmptyObject} ELSE {Plain(CreateSchema(t))})
                    ELSE IF route.method = "PUT"
                    THEN (IF full /\ changes < 2 THEN UpdateBodies(t)
                          ELSE IF full THEN {EmptyObject, Full(UpdateSchema(t))}
                          ELSE {Full(UpdateSchema(t))})
                    ELSE {EmptyObject}),
             q \in (IF route.method = "GET" /\ Len(route.pattern) = 1
                    THEN (IF full THEN Queries(t) ELSE {EmptyObject})
                    ELSE {EmptyObject})}

\* Requests to paths no route is registered for.
Unrouted ==
  IF focus.scope # "user_settings" /\ ~Broad THEN {}
  ELSE {Request(m, <<"user-settings">>, a, b, EmptyObject, "none")
        : m \in {"POST"}, a \in Authorizations,
          b \in {[user_id |-> "u2", dashboard_preferences |-> "{theme:light}"]}}
       \cup {Request("GET", <<"user-settings">>, a, EmptyObject, EmptyObject, "none")
             : a \in Authorizations}

RouteNamed(n) == Routes[CHOOSE i \in 1..Len(Routes) : Routes[i].name = n]

\* The requests that Express hands to the route named n: those sent to a
\* pattern of the same method and shape that no earlier route takes.
RequestsFor(n) ==
  LET r == RouteNamed(n)
      alike == {i \in 1..Len(Routes) : /\ Routes[i].method = r.method
                                       /\ Len(Routes[i].pattern) = Len(r.pattern)
                                       /\ Routes[i].pattern[1] = r.pattern[1]}
  IN {req \in UNION {RequestsTo(Routes[i]) : i \in alike} : RouteOf(req) = n}

(***************************************************************************)
(* Actions                                                                 *)
(***************************************************************************)
\* The server answers req with outcome o.
Respond(req, o) ==
  /\ db' = o.db
  /\ storage' = o.storage
  /\ issued' = issued \cup ({o.token} \ {NoToken})
  /\ minted' = IF \E t \in Tables : Uuid(minted) \in Ids(o.db, t) THEN minted + 1 ELSE minted
  /\ last' = [req |-> req, res |-> o.res]
  /\ removed' = IF req.method = "DELETE" /\ o.res.status = 200 /\ Len(req.path) = 2
                THEN removed \cup {<<TableOf(req.path[1]), req.path[2]>>}
                ELSE removed
  /\ UNCHANGED <<now, focus>>

\* A request from outside the form is answered, within the budget of changes.
Commit(req, o) ==
  LET changed == \/ o.db # db
                 \/ o.storage # storage
                 \/ o.token # NoToken /\ o.token \notin issued /\ focus.scope # "stale"
  IN /\ changed => changes < MaxChanges
     /\ Respond(req, o)
     /\ changes' = IF changed THEN changes + 1 ELSE changes
     /\ UNCHANGED <<form, store, event>>

\* A request reaches the route named n and is answered.
Serve(n) ==
  /\ last = Idle
  /\ \E req \in RequestsFor(n) : \E o \in Handle(State, req) : Commit(req, o)

\* A request to a path without a route.
ServeNoRoute ==
  /\ last = Idle
  /\ \E req \in Unrouted : RouteOf(req) = "none" /\ \E o \in Handle(State, req) : Commit(req, o)

\* The response has gone out; the server is ready for the next request.
Finish ==
  /\ last # Idle
  /\ last' = Idle
  /\ UNCHANGED <<db, storage, now, issued, minted, focus, changes, removed, form,
               store, event>>

\* The clock moves on between requests (the browser session of scope "store"
\* never reads it and is followed at one clock reading).
Tick ==
  /\ last = Idle /\ focus.scope # "store"
  /\ now < MaxTicks * TickStep
  /\ now' = now + TickStep
  /\ UNCHANGED <<db, storage, issued, minted, last, focus, changes, removed, form,
               store, event>>

(***************************************************************************)
(* The client form: handleSubmit of UV_ClientForm                          *)
(***************************************************************************)
\* What the user has put into the form: a new client or client c3 opened for
\* editing, the additional details (empty or a JSON text), a property interest
\* and a communication (none, complete, or with a required field left empty),
\* a file selected or not.  The personal fields pass the form's validation.
FormEntries ==
  [mode : {"create", "edit"},
   details : {"", "{theme:light}"},
   interest : {EmptyObject, [property_type |-> "Zed"],
               [property_type |-> "Zed", preferred_location |-> "Zed", price_min |-> "5"]},
   communication : {EmptyObject, [communication_type |-> "Zed"],
                    [communication_type |-> "Zed", note |-> "Zed"]},
   file : {"none", "selected"}]

\* new Date().toISOString() in the browser.
FormClock == "2024-05-01T10:30:00Z"

\* The first of the optional steps after step k that the entry calls for.
FormAfter(k, e) ==
  IF k < 1 /\ Truthy(Get(e.interest, "property_type")) THEN "interest"
  ELSE IF k < 2 /\ Truthy(Get(e.communication, "communication_type")) THEN "log"
  ELSE IF k < 3 /\ e.file = "selected" THEN "document"
  ELSE "done"

\* await axios.post/put: a status outside 2xx throws into the catch block,
\* which raises a notification and sends nothing.
FormAwait(req, o, k) ==
  /\ Respond(req, o)
  /\ UNCHANGED <<store, event>>
  /\ form' = IF o.res.status \in {200, 201}
             THEN [form EXCEPT !.pc = FormAfter(k, form.entry)]
             ELSE [form EXCEPT !.pc = "failed"]

\* The form is submitted: the client is created, or updated when the form was
\* opened for an existing client.  Non-empty additional details end the
\* submission in the catch block before any request (the name submission_data
\* is not defined).
FormSubmit ==
  /\ focus.scope = "form" /\ last = Idle /\ form.pc = "ready" /\ changes < MaxChanges
  /\ changes' = changes + 1
  /\ UNCHANGED <<store, event>>
  /\ \E tok \in issued : \E e \in FormEntries :
       /\ e.mode = "edit" => "c3" \in Ids(db, "clients")
       /\ IF Truthy(e.details)
          THEN /\ form' = [pc |-> "failed", token |-> tok, entry |-> e, client |-> Absent]
               /\ UNCHANGED <<db, storage, now, issued, minted, last, focus, removed>>
          ELSE LET data == Plain(createClientInputSchema) @@ [additional_details |-> e.details]
                   req == IF e.mode = "create"
                          THEN Request("POST", <<"clients">>, tok, data, EmptyObject, "none")
                          ELSE Request("PUT", <<"clients", "c3">>, tok, data, EmptyObject, "none")
               IN \E o \in Handle(State, req) :
                    /\ Respond(req, o)
                    /\ form' = IF o.res.status \in {200, 201}
                               THEN [pc |-> FormAfter(0, e), token |-> tok, entry |-> e,
                                     client |-> o.res.body.id]
                               ELSE [pc |-> "failed", token |-> tok, entry |-> e, client |-> Absent]

\* The property interest is posted for the client just written.
FormInterest ==
  /\ last = Idle /\ form.pc = "interest"
  /\ LET req == Request("POST", <<"client-property-interests">>, form.token,
                        form.entry.interest @@ [client_id |-> form.client], EmptyObject, "none")
     IN \E o \in Handle(State, req) : FormAwait(req, o, 1)
  /\ UNCHANGED changes

\* The communication log is posted, with the logged-in user as its author.
FormLog ==
  /\ last = Idle /\ form.pc = "log"
  /\ LET req == Request("POST", <<"communication-logs">>, form.token,
                        [timestamp |-> FormClock] @@ form.entry.communication
                          @@ [client_id |-> form.client, user_id |-> form.token.id],
                        EmptyObject, "none")
     IN \E o \in Handle(State, req) : FormAwait(req, o, 2)
  /\ UNCHANGED changes

\* A last step that takes the client back out of the table.
FormDocumentUndoing ==
  /\ last = Idle /\ form.pc = "document"
  /\ db' = [db EXCEPT !.clients = {r \in @ : r.id # form.client}]
  /\ form' = [form EXCEPT !.pc = "failed"]
  /\ UNCHANGED <<storage, now, issued, minted, last, focus, changes, removed, store, event>>

\* The record of the selected file is posted.
FormDocument ==
  /\ last = Idle /\ form.pc = "document"
  /\ LET req == Request("POST", <<"client-documents">>, form.token,
                        [client_id |-> form.client, document_name |-> "Zed",
                         document_url |-> "https://picsum.photos/new",
                         document_type |-> "Zed", uploaded_at |-> FormClock],
                        EmptyObject, "none")
     IN \E o \in Handle(State, req) : FormAwait(req, o, 3)
  /\ UNCHANGED changes

(***************************************************************************)
(* The browser session: login view, navbar, notifications, settings        *)
(***************************************************************************)
\* What the user types into the login form.
Credentials ==
  {[username |-> "agent_john", password |-> "john-pw"],
   [username |-> "agent_john", password |-> "wrong"],
   [username |-> "", password |-> ""]}

\* What the socket and the views hand to add_notification.
Notifications ==
  {[id |-> "n1", type |-> "info", message |-> "Zed", timestamp |-> "2024-05-01T10:30:00Z"],
   [id |-> "n2", type |-> "info", message |-> "Zed", timestamp |-> "2024-05-01T10:30:00Z"]}

\* Partial<UserSettingsType>: some of the three settings keys.
SettingsGiven ==
  {[dashboard_preferences |-> [theme |-> "dark"]],
   [dashboard_preferences |-> [layout |-> "grid"], configuration |-> [language |-> "en-UK"]]}

\* A handler that touches only the store has run.
Dispatch(name, arg, state) ==
  /\ focus.scope = "store" /\ last = Idle
  /\ store' = state
  /\ event' = [name |-> name, arg |-> arg, from |-> store]
  /\ UNCHANGED <<db, storage, now, issued, minted, last, focus, changes, removed, form>>

\* UV_Login: the login view, rendered inside PublicRoute, posts the
\* credentials; onSuccess stores the token and the user, onError leaves the
\* store alone.  A token not issued before counts as a change.
loginMutation ==
  /\ focus.scope = "store" /\ last = Idle
  /\ PublicRoute(store) = "children"
  /\ \E credentials \in Credentials :
       LET req == Request("POST", <<"auth", "login">>, NoToken, credentials, EmptyObject, "none")
       IN \E o \in Handle(State, req) :
            /\ o.token \notin issued \cup {NoToken} => changes < MaxChanges
            /\ changes' = IF o.token \notin issued \cup {NoToken} THEN changes + 1 ELSE changes
            /\ Respond(req, o)
            /\ store' = IF o.res.status = 200
                        THEN set_auth(store, [token |-> o.res.body.token,
                                              user |-> o.res.body.user,
                                              is_authenticated |-> TRUE])
                        ELSE store
            /\ event' = [name |-> "loginMutation", arg |-> credentials, from |-> store]
  /\ UNCHANGED form

\* A logout that resets the store only when the server has answered 200.
handleLogoutOnSuccess ==
  /\ focus.scope = "store" /\ last = Idle
  /\ ProtectedRoute(store) = "children"
  /\ LET req == Request("POST", <<"auth", "logout">>, NoToken, EmptyObject, EmptyObject, "none")
     IN \E o \in Handle(State, req) :
          /\ Respond(req, o)
          /\ store' = IF o.res.status = 200 THEN reset_auth(store) ELSE store
          /\ event' = [name |-> "handleLogout", arg |-> EmptyObject, from |-> store]
  /\ UNCHANGED <<changes, form>>

\* GV_Navbar, rendered inside ProtectedRoute: the logout call goes out without
\* an Authorization header; whatever the answer, the catch block only logs and
\* reset_auth runs.
handleLogout ==
  /\ focus.scope = "store" /\ last = Idle
  /\ ProtectedRoute(store) = "children"
  /\ LET req == Request("POST", <<"auth", "logout">>, NoToken, EmptyObject, EmptyObject, "none")
     IN \E o \in Handle(State, req) :
          /\ Respond(req, o)
          /\ store' = reset_auth(store)
          /\ event' = [name |-> "handleLogout", arg |-> EmptyObject, from |-> store]
  /\ UNCHANGED <<changes, form>>

\* socket.on('notification') and the views' error handlers.
OnNotification ==
  /\ Len(store.notifications) < MaxNotifications
  /\ \E n \in Notifications : Dispatch("add_notification", n, add_notification(store, n))

\* GV_NotificationsPanel: one of the notifications shown is dismissed, or one
\* that another tab has already removed.
DismissNotification ==
  /\ store.notifications # <<>>
  /\ \E id \in {"n1", "n2"} : Dispatch("remove_notification", id, remove_notification(store, id))

\* GV_NotificationsPanel: the notifications shown are cleared.
ClearNotifications ==
  /\ store.notifications # <<>>
  /\ Dispatch("clear_notifications", EmptyObject, clear_notifications(store))

\* UV_Settings, a protected view, hands saved settings to the store.
UpdateUserSettingsStore ==
  /\ ProtectedRoute(store) = "children"
  /\ \E settings \in SettingsGiven :
       Dispatch("update_user_settings", settings, update_user_settings(store, settings))

\* No request reaches GetClientsExport: GET /api/clients/:id is registered
\* before it and takes every GET /api/clients/export.
Next ==
  \/ Serve("PostAuthLogin")
  \/ Serve("PostAuthLogout")
  \/ Serve("PostAuthForgotPassword")
  \/ Serve("PostUsers")
  \/ Serve("GetUsers")
  \/ Serve("GetUsersId")
  \/ Serve("PutUsersId")
  \/ Serve("DeleteUsersId")
  \/ Serve("PostClients")
  \/ Serve("GetClients")
  \/ Serve("GetClientsId")
  \/ Serve("PutClientsId")
  \/ Serve("DeleteClientsId")
  \/ Serve("PostClientsImport")
  \/ Serve("PostClientPropertyInterests")
  \/ Serve("GetClientPropertyInterests")
  \/ Serve("GetClientPropertyInterestsId")
  \/ Serve("PutClientPropertyInterestsId")
  \/ Serve("DeleteClientPropertyInterestsId")
  \/ Serve("PostProperties")
  \/ Serve("GetProperties")
  \/ Serve("GetPropertiesId")
  \/ Serve("PutPropertiesId")
  \/ Serve("DeletePropertiesId")
  \/ Serve("PostAppointments")
  \/ Serve("GetAppointments")
  \/ Serve("GetAppointmentsId")
  \/ Serve("PutAppointmentsId")
  \/ Serve("DeleteAppointmentsId")
  \/ Serve("PostCommunicationLogs")
  \/ Serve("GetCommunicationLogs")
  \/ Serve("GetCommunicationLogsId")
  \/ Serve("PutCommunicationLogsId")
  \/ Serve("DeleteCommunicationLogsId")
  \/ Serve("PostClientDocuments")
  \/ Serve("GetClientDocuments")
  \/ Serve("GetClientDocumentsId")
  \/ Serve("PutClientDocumentsId")
  \/ Serve("DeleteClientDocumentsId")
  \/ Serve("GetUserSettingsUserId")
  \/ Serve("PutUserSettingsId")
  \/ ServeNoRoute
  \/ FormSubmit
  \/ FormInterest
  \/ FormLog
  \/ FormDocument
  \/ loginMutation
  \/ handleLogout
  \/ OnNotification
  \/ DismissNotification
  \/ ClearNotifications
  \/ UpdateUserSettingsStore
  \/ Finish
  \/ Tick

Spec == Init /\ [][Next]_vars

(***************************************************************************)
(* Properties                                                              *)
(***************************************************************************)
\* The exchange a step completes: a PUT answered with 200.
PutSucceeded(exchange) == exchange.req.method = "PUT" /\ exchange.res.status = 200

\* C1: a successful PUT on an existing id leaves every column of the row that
\* the request body does not name, other than updated_at, as it was, and
\* changes no other row of any table.
C1_PutFrame ==
  [][PutSucceeded(last') =>
       LET t == TableOf(last'.req.path[1])
           id == last'.req.path[2]
       IN /\ \A u \in Tables \ {t} : db'[u] = db[u]
          /\ {r \in db'[t] : r.id # id} = {r \in db[t] : r.id # id}
          /\ \E r \in db[t] : r.id = id
          /\ \A r \in db[t] :
               r.id = id =>
                 \E n \in db'[t] :
                   /\ n.id = id
                   /\ \A c \in Columns[t] \ {"updated_at"} :
                        ~Has(last'.req.body, c) => n[c] = r[c]]_vars

\* A PUT that names first_name alone has changed it and kept the other columns.
C1_Witness ==
  /\ PutSucceeded(last)
  /\ last.req.path = <<"clients", "c1">>
  /\ DOMAIN last.req.body = {"first_name"}
  /\ \E r \in db.clients :
       /\ r.id = "c1" /\ r.first_name = "Zed" /\ r.last_name = "Wonderland"
       /\ r.additional_details = "{preferred_contact:email}"

\* The columns a PUT route can write, beside updated_at.
Updatable ==
  [users |-> {"username", "email", "password_hash", "role"},
   clients |-> {"first_name", "last_name", "email", "phone", "address", "status",
                "additional_details"},
   client_property_interests |-> {"property_type", "preferred_location", "price_min",
                                  "price_max", "additional_notes"},
   properties |-> {"address", "property_type", "price", "status", "description"},
   appointments |-> {"client_id", "property_id", "agent_id", "appointment_date",
                     "appointment_time", "notes", "is_confirmed"},
   communication_logs |-> {"communication_type", "note", "follow_up_flag", "timestamp"},
   client_documents |-> {"document_name", "document_url", "document_type"},
   user_settings |-> {"dashboard_preferences", "notification_settings", "configuration"}]

\* The stored form of a value: a password as its hash, a date in the column's format.
Stored(column, v) ==
  CASE column = "password_hash" -> BcryptHash(v)
    [] column = "appointment_date" -> ToISODay(v)
    [] column = "timestamp" -> ToISOString(v)
    [] OTHER -> v

\* C2: after a successful PUT every updatable column that the body names holds
\* the body's value (a password as its hash), null and falsy values such as
\* price 0 or is_confirmed false included.
C2_PutStores ==
  [][PutSucceeded(last') =>
       LET t == TableOf(last'.req.path[1])
       IN \A n \in db'[t] :
            n.id = last'.req.path[2] =>
              \A c \in Updatable[t] :
                Has(last'.req.body, c) => n[c] = Stored(c, last'.req.body[c])]_vars

\* The routes that create a row.
CreateRoutes ==
  {"PostUsers", "PostClients", "PostClientPropertyInterests", "PostProperties",
   "PostAppointments", "PostCommunicationLogs", "PostClientDocuments"}

\* The request passes authenticateToken and, for the users routes, the role check.
Admitted(req, t) ==
  /\ authenticateToken(req, t) = 0
  /\ req.path[1] = "users" /\ req.method # "GET" => req.auth.role = "admin"

\* The fields a create schema requires.
Required(t) == DOMAIN Plain(CreateSchema(t))

\* C3: a create request, from a caller the route admits, in which a required
\* field is missing or is the empty string is answered with 400 and adds no row.
C3_CreateRejects ==
  [][(/\ last' # Idle
      /\ RouteOf(last'.req) \in CreateRoutes
      /\ Admitted(last'.req, now)
      /\ \E n \in Required(TableOf(last'.req.path[1])) :
           Get(last'.req.body, n) \in {Absent, ""})
       => last'.res.status = 400 /\ db' = db]_vars

\* A client whose first name is the empty string has been refused.
C3_Witness ==
  /\ RouteOf(last.req) = "PostClients"
  /\ Admitted(last.req, now)
  /\ Get(last.req.body, "first_name") = "" /\ Get(last.req.body, "last_name") = "Zed"
  /\ last.res.status = 400
  /\ db = Seed

\* The body passes the entity's schema, refers to rows that are there and takes
\* no name that is taken.
ValidCreate(t, body) ==
  /\ ZodOk(CreateSchema(t), body)
  /\ \A fk \in ForeignKeys :
       fk.table = t /\ Has(body, fk.column) => body[fk.column] \in Ids(db, fk.ref) \cup {Null}
  /\ \A c \in UniqueColumns[t] : \A r \in db[t] : r[c] # body[c]

\* C4: for each of the eight entities, a POST to its collection with all
\* required fields present and valid is answered with 201 and a stored row
\* whose id no earlier row had, with created_at = updated_at where the entity
\* has both.
C4_CreateSucceeds ==
  [][(/\ last'.req.method = "POST"
      /\ Len(last'.req.path) = 1
      /\ TableOf(last'.req.path[1]) \in Tables
      /\ Admitted(last'.req, now)
      /\ ValidCreate(TableOf(last'.req.path[1]), last'.req.body))
       => LET t == TableOf(last'.req.path[1])
              row == last'.res.body
          IN /\ last'.res.status = 201
             /\ row \in db'[t]
             /\ \A e \in Tables : row.id \notin Ids(db, e)
             /\ t \in {"users", "clients", "properties", "appointments"}
                  => row.created_at = row.updated_at]_vars

\* The routes that write the users table.
UserWrites == {"PostUsers", "PutUsersId", "DeleteUsersId"}

\* C5: POST /api/users, PUT and DELETE /api/users/:id change the users table
\* only for a token whose role is admin; a token of any other role gets 403
\* and the users table stays as it was.
C5_UserWritesAdminOnly ==
  [][/\ db'.users # db.users
          => RouteOf(last'.req) \in UserWrites /\ last'.req.auth.role = "admin"
     /\ (/\ last' # Idle
         /\ RouteOf(last'.req) \in UserWrites
         /\ authenticateToken(last'.req, now) = 0
         /\ last'.req.auth.role # "admin")
          => last'.res = Message(403, "Forbidden") /\ db' = db]_vars

\* The support role has asked to delete the manager and has been refused.
C5_Witness ==
  /\ RouteOf(last.req) = "DeleteUsersId"
  /\ last.req.path[2] = "u5"
  /\ authenticateToken(last.req, now) = 0
  /\ last.req.auth.role = "support"
  /\ last.res.status = 403
  /\ db.users = Seed.users

\* C6: GET /api/users and GET /api/users/:id answer a token of role agent or
\* support with 403, and give user data to the roles admin and manager only.
C6_UserReadsRestricted ==
  (/\ RouteOf(last.req) \in {"GetUsers", "GetUsersId"}
   /\ authenticateToken(last.req, now) = 0
   /\ last.req.auth.role \notin {"admin", "manager"})
    => last.res.status = 403

\* C7: POST /api/clients/import and GET /api/clients/export answer a token
\* whose role is neither admin nor support with 403.
C7_TransferRestricted ==
  (/\ \/ last.req.method = "POST" /\ last.req.path = <<"clients", "import">>
      \/ last.req.method = "GET" /\ last.req.path = <<"clients", "export">>
   /\ authenticateToken(last.req, now) = 0
   /\ last.req.auth.role \notin {"admin", "support"})
    => last.res.status = 403

\* C8: every route other than login and forgot-password answers 401 when the
\* request carries no token and when it carries a malformed, wrongly signed
\* or expired one.
C8_Unauthenticated ==
  (/\ last # Idle
   /\ RouteOf(last.req) \notin {"none", "PostAuthLogin", "PostAuthForgotPassword"}
   /\ ~JwtVerify(last.req.auth, now))
    => last.res.status = 401

Login(identifier, password) ==
  Request("POST", <<"auth", "login">>, NoToken,
          [username |-> identifier, password |-> password], EmptyObject, "none")

\* Identifiers and passwords tried at the login.
Identifiers == {"nobody", "Zed", "new@sample.co.uk", "agent_john", "john@estatehub.co.uk",
                "support_sam", "admin@estatehub.co.uk"}

PasswordsTried == {"wrong", "Zed", "john-pw", "admin-pw"}

Matches(identifier) == {u \in db.users : u.username = identifier \/ u.email = identifier}

\* The responses to logins with an identifier of no user.
UnknownReplies ==
  UNION {{o.res : o \in PostAuthLogin(State, Login(i, p))}
         : i \in {x \in Identifiers : Matches(x) = {}}, p \in PasswordsTried}

\* The responses to logins of an existing user that hand out no token.
WrongPasswordReplies ==
  UNION {{o.res : o \in {x \in PostAuthLogin(State, Login(i, p)) : x.token = NoToken}}
         : i \in {x \in Identifiers : Matches(x) # {}}, p \in PasswordsTried}

\* C9: whenever the server is about to take a login or has just answered one,
\* a login that fails on the password of an existing user gets the status 401
\* and the very response that a login with an identifier of no user gets.
C9_LoginUniform ==
  last = Idle \/ RouteOf(last.req) = "PostAuthLogin"
    => /\ WrongPasswordReplies # {} /\ UnknownReplies # {}
       /\ Cardinality(WrongPasswordReplies \cup UnknownReplies) = 1
       /\ \A r \in WrongPasswordReplies \cup UnknownReplies : r.status = 401

\* A login with a user's name and a wrong password has been answered.
C9_Witness ==
  /\ RouteOf(last.req) = "PostAuthLogin"
  /\ last.req.body = [username |-> "agent_john", password |-> "wrong"]
  /\ Matches("agent_john") # {} /\ Matches("nobody") = {}
  /\ last.res = Message(401, "Authentication failed")

\* One request to every route behind authenticateToken, carrying tok.
ProtectedRequests(tok) ==
  {Request(Routes[i].method,
           IF Len(Routes[i].pattern) = 2 /\ Routes[i].pattern[2] \in {":id", ":user_id"}
           THEN <<Routes[i].pattern[1], "missing">> ELSE Routes[i].pattern,
           tok, EmptyObject, EmptyObject, "none")
   : i \in {j \in 1..Len(Routes) : Routes[j].name \notin {"PostAuthLogin", "PostAuthForgotPassword"}}}

\* C10: between exchanges and right after a logout, a token a login has
\* returned passes authenticateToken on every protected route as long as the
\* clock is before its expiry, and POST /api/auth/logout with it answers 200
\* and changes nothing, so that the state after a logout is the state before it.
C10_TokenHolds ==
  \A tok \in issued :
    now < tok.exp /\ (last = Idle \/ RouteOf(last.req) = "PostAuthLogout") =>
      \A req \in ProtectedRequests(tok) :
        \A o \in Handle(State, req) :
          /\ o.res.type # "text"
          /\ RouteOf(req) = "PostAuthLogout"
               => /\ o.res = Message(200, "Logout successful")
                  /\ o.db = db /\ o.storage = storage /\ o.token = NoToken

\* Half an hour after the login the token's holder has logged out; the token
\* is still among the issued ones and not yet expired.
C10_Witness ==
  /\ RouteOf(last.req) = "PostAuthLogout"
  /\ last.res.status = 200
  /\ last.req.auth \in issued
  /\ now = last.req.auth.exp - TokenTTL + TickStep

\* The first path segment of a table's routes.
Segment(t) ==
  CHOOSE seg \in {"users", "clients", "client-property-interests", "properties",
                  "appointments", "communication-logs", "client-documents", "user-settings"}
    : TableOf(seg) = t

\* A GET and a DELETE of row id of table t, carrying tok.
Lookups(t, id, tok) ==
  {Request(m, <<Segment(t), id>>, tok, EmptyObject, EmptyObject, "none") : m \in {"GET", "DELETE"}}

\* C11: once a DELETE of an existing id has been answered with success, in
\* every later state the id is in no row of the table, and a GET and a further
\* DELETE of it, from a caller the route admits, are answered with 404 and
\* change nothing.
C11_DeletedStaysGone ==
  \A g \in removed :
    /\ g[2] \notin Ids(db, g[1])
    /\ \A tok \in issued :
         \A req \in Lookups(g[1], g[2], tok) :
           Admitted(req, now) =>
             \A o \in Handle(State, req) :
               o.res.status = 404 /\ o.db = db /\ o.storage = storage

\* The seed client nothing refers to has been deleted, and a GET of it after
\* that has been answered with 404.
C11_Witness ==
  /\ <<"clients", "c3">> \in removed
  /\ last.req.method = "GET" /\ last.req.path = <<"clients", "c3">>
  /\ last.res.status = 404

\* C12: a DELETE of an existing client, property or user, from a caller the
\* route admits, is answered with success and removes the row, also when rows
\* of other tables refer to it, and every other table is left as it was.
C12_DeleteOrphans ==
  [][(/\ last' # Idle
      /\ last'.req.method = "DELETE"
      /\ last'.req.path[1] \in {"clients", "properties", "users"}
      /\ last'.req.path[2] \in Ids(db, last'.req.path[1])
      /\ Admitted(last'.req, now))
       => /\ last'.res.status = 200
          /\ last'.req.path[2] \notin Ids(db', last'.req.path[1])
          /\ \A t \in Tables \ {last'.req.path[1]} : db'[t] = db[t]]_vars

\* C13: in every reachable state each appointment's agent_id is the id of a
\* user in the users table, and its property_id is null or the id of a
\* property in the properties table.
C13_AppointmentsRefer ==
  \A a \in db.appointments :
    /\ a.agent_id \in Ids(db, "users")
    /\ a.property_id = Null \/ a.property_id \in Ids(db, "properties")

\* A PUT has handed the seed appointment to another agent.
C13_Witness ==
  /\ PutSucceeded(last)
  /\ last.req.path = <<"appointments", "a1">>
  /\ Has(last.req.body, "agent_id")
  /\ \E a \in db.appointments : a.id = "a1" /\ a.agent_id = "u4" /\ a.property_id = "p1"

\* No two of the rows share a username, and no two share an email.
UsersDistinct(rows) ==
  \A r1, r2 \in rows : r1.id # r2.id => r1.username # r2.username /\ r1.email # r2.email

\* The request, if carried out, would give a user the username or the email
\* of another user: a POST naming one that a row has, a PUT of an existing
\* user naming one that another row has.
WouldRepeat(exchange, d) ==
  /\ exchange # Idle
  /\ RouteOf(exchange.req) \in {"PostUsers", "PutUsersId"}
  /\ Admitted(exchange.req, now)
  /\ exchange.req.method = "PUT" => exchange.req.path[2] \in Ids(d, "users")
  /\ \E c \in {"username", "email"} :
       \E r \in d.users :
         /\ Get(exchange.req.body, c) = r[c]
         /\ exchange.req.method = "PUT" => r.id # exchange.req.path[2]

\* C14: no two users share a username and no two share an email, before and
\* after every request; a POST /api/users or PUT /api/users/:id that would
\* make two users share one is answered with 400 and leaves the users table
\* as it was.
C14_UsersUnique ==
  [][/\ UsersDistinct(db.users) /\ UsersDistinct(db'.users)
     /\ WouldRepeat(last', db) => last'.res.status = 400 /\ db'.users = db.users]_vars

\* A PUT that would give the agent the support user's email has been refused,
\* the body being valid otherwise.
C14_Witness ==
  /\ WouldRepeat(last, db)
  /\ last.req.method = "PUT" /\ last.req.path = <<"users", "u2">>
  /\ last.req.body = [email |-> "sam@estatehub.co.uk"]
  /\ ZodOk(updateUserInputSchema, PutInput(last.req))
  /\ last.res.status = 400
  /\ db = Seed

\* The tables with a paginated list route.
Listed == {"users", "clients", "properties"}

\* The request passes authenticateToken and the role check of the list route.
ListAdmitted(req, t) ==
  /\ authenticateToken(req, t) = 0
  /\ req.path[1] = "users" => req.auth.role \in {"admin", "manager"}

\* GET /api/<table>?limit=n&offset=k
Page(t, tok, n, k) ==
  Request("GET", <<Segment(t)>>, tok, EmptyObject, [limit |-> n, offset |-> k], "none")

\* C15: with the tables as they are, the pages (limit=1, offset=0) and
\* (limit=1, offset=1) of a list route are both returned, have no row in
\* common, and one after the other are the first two rows of the full result
\* in the requested (default) order.
C15_PagesPartition ==
  last = Idle =>
    \A t \in Listed : \A tok \in issued :
      ListAdmitted(Page(t, tok, "1", "0"), now) =>
        \A o0 \in Handle(State, Page(t, tok, "1", "0")) :
          \A o1 \in Handle(State, Page(t, tok, "1", "1")) :
            /\ o0.res.status = 200 /\ o1.res.status = 200
            /\ \A i \in 1..Len(o0.res.body) : \A j \in 1..Len(o1.res.body) :
                 o0.res.body[i] # o1.res.body[j]
            /\ \E full \in OrderBy(db[t], "created_at", "desc") :
                 o0.res.body \o o1.res.body = LimitOffset(full, 2, 0)

\* The sort_by values each list route's schema allows.
AllowList ==
  [users |-> {"username", "email", "created_at"},
   clients |-> {"first_name", "last_name", "created_at"},
   properties |-> {"address", "price", "created_at"}]

\* The query-string numerals in use that are positive integers, and their values.
Positive == [n \in {"1", "5"} |-> IF n = "1" THEN 1 ELSE 5]

\* The query is one the list route of table t is to accept.
QueryValid(q, t) ==
  /\ Has(q, "limit") => q.limit \in DOMAIN Positive
  /\ Has(q, "offset") => q.offset \in DOMAIN Positive \cup {"0"}
  /\ Has(q, "sort_by") => q.sort_by \in AllowList[t]
  /\ Has(q, "sort_order") => q.sort_order \in {"asc", "desc"}

\* C16: a list request to users, clients or properties, from a caller the
\* route admits, is answered with 200 exactly when each of limit, offset,
\* sort_by and sort_order that it names is valid; an accepted request returns
\* at most limit rows (10 when it names none), any other is answered with 400.
C16_ListAccepts ==
  (/\ last # Idle
   /\ RouteOf(last.req) \in {"GetUsers", "GetClients", "GetProperties"}
   /\ ListAdmitted(last.req, now))
    => LET q == last.req.query
       IN IF QueryValid(q, TableOf(last.req.path[1]))
          THEN /\ last.res.status = 200
               /\ Len(last.res.body) <= (IF Has(q, "limit") THEN Positive[q.limit] ELSE 10)
          ELSE last.res.status = 400

\* C17: GET /api/clients/export from an admin or a support user, while the
\* clients table has a row, is answered with a CSV download whose first line
\* is the client column names and that has one further line per client row.
C17_ExportLists ==
  (/\ last.req.method = "GET" /\ last.req.path = <<"clients", "export">>
   /\ authenticateToken(last.req, now) = 0
   /\ last.req.auth.role \in {"admin", "support"}
   /\ db.clients # {})
    => /\ last.res.status = 200
       /\ last.res.type = "csv"
       /\ last.res.body = [header |-> Columns.clients, lines |-> db.clients]

\* C18: POST /api/clients/import leaves every table as it was, whatever file
\* comes with it and whoever sends it; the rows read from the file are only
\* returned in the response.
C18_ImportStoresNothing ==
  [][(last' # Idle /\ last'.req.method = "POST" /\ last'.req.path = <<"clients", "import">>)
       => db' = db]_vars

\* An admin's import of a readable sheet has been answered with the rows, and
\* the tables are those of the seed.
C18_Witness ==
  /\ RouteOf(last.req) = "PostClientsImport"
  /\ last.req.file = "sheet"
  /\ last.req.auth.role = "admin"
  /\ last.res.status = 200 /\ last.res.body.data = "rows of the sheet"
  /\ db = Seed

\* C19: no step of the client form's submission sends a DELETE or takes a row
\* out of a table, and once the client has been written and a later step has
\* failed, the client row is in the clients table, then and ever after.
C19_FormKeepsRows ==
  [][/\ form' # form =>
          /\ \A t \in Tables : Ids(db, t) \subseteq Ids(db', t)
          /\ last' # last => last'.req.method \in {"POST", "PUT"}
     /\ (form'.pc = "failed" /\ form'.client # Absent)
          => form'.client \in Ids(db', "clients")]_vars

\* A new client, its property interest and its communication log have been
\* written; the document step has then failed and all three rows are there.
C19_Witness ==
  /\ form.pc = "failed" /\ form.entry.mode = "create"
  /\ last.req.path = <<"client-documents">> /\ last.res.status = 400
  /\ form.client \in Ids(db, "clients") \ Ids(Seed, "clients")
  /\ \E r \in db.client_property_interests : r.client_id = form.client
  /\ \E r \in db.communication_logs : r.client_id = form.client

\* C20: a PUT whose body passes the entity's update schema, the empty body
\* included, from a caller the route admits, is answered with 404 and changes
\* nothing when no row has the id, and with the stored row when one has.
C20_PutMissing ==
  [][(/\ last' # Idle
      /\ last'.req.method = "PUT" /\ Len(last'.req.path) = 2
      /\ RouteOf(last'.req) # "none"
      /\ Admitted(last'.req, now)
      /\ ZodOk(UpdateSchema(TableOf(last'.req.path[1])), PutInput(last'.req)))
       => LET t == TableOf(last'.req.path[1])
          IN IF last'.req.path[2] \in Ids(db, t)
             THEN /\ last'.res.status = 200
                  /\ last'.res.body \in db'[t]
                  /\ last'.res.body.id = last'.req.path[2]
             ELSE last'.res.status = 404 /\ db' = db]_vars

\* The tables with an updated_at column.
Stamped == {"users", "clients", "properties", "appointments", "user_settings"}

\* PUT of row id of table t with body b, carrying tok.
Put(t, id, tok, b) == Request("PUT", <<Segment(t), id>>, tok, b, EmptyObject, "none")

\* C21: in every state, a PUT of a row of a table with updated_at that is
\* answered with success leaves the row's updated_at strictly greater than it
\* was, also right after an earlier PUT of the row and right after the POST
\* that created it.
C21_UpdatedAtIncreases ==
  last = Idle =>
    \A t \in Stamped : \A r \in db[t] : \A tok \in issued :
      Admitted(Put(t, r.id, tok, EmptyObject), now) =>
        \A o \in Handle(State, Put(t, r.id, tok, EmptyObject)) :
          o.res.status = 200 =>
            \A n \in o.db[t] : n.id = r.id => n.updated_at > r.updated_at

\* PUT and DELETE requests for user id: bodies that pass the update schema
\* and one that does not.
UserWritesTo(id, tok) ==
  {Put("users", id, tok, b) : b \in {EmptyObject, Full(updateUserInputSchema), [username |-> ""]}}
    \cup {Request("DELETE", <<"users", id>>, tok, EmptyObject, EmptyObject, "none")}

\* C22: where each role sends its plain requests and where the admin changes
\* or deletes the manager, between exchanges and right after such a request, a
\* PUT or DELETE of /api/users/:id from a caller whose token is good and whose
\* role is not admin is answered with 403 Forbidden and changes nothing,
\* whether a user has the id or not and whether the body passes the schema or
\* not.
C22_ForbiddenTellsNothing ==
  \A tok \in issued :
    (/\ focus.scope \in {"access", "stale"}
     /\ now < tok.exp /\ tok.role # "admin"
     /\ last = Idle \/ RouteOf(last.req) \in {"PutUsersId", "DeleteUsersId"}) =>
      \A id \in Ids(db, "users") \cup {"missing"} :
        \A req \in UserWritesTo(id, tok) :
          \A o \in Handle(State, req) :
            o.res = Message(403, "Forbidden") /\ o.db = db /\ o.storage = storage

\* An agent's PUT for an id no user has has been answered with 403.
C22_Witness ==
  /\ RouteOf(last.req) = "PutUsersId"
  /\ last.req.path[2] \notin Ids(db, "users")
  /\ authenticateToken(last.req, now) = 0 /\ last.req.auth.role = "agent"
  /\ last.res = Message(403, "Forbidden")

\* C23: in every state, every identifier that is the username or the email of
\* a user is the username or email of that one user only, so that the login's
\* query for it returns one row.
C23_IdentifierDenotesOne ==
  \A u \in db.users : \A i \in {u.username, u.email} : Matches(i) = {u}

\* C24: a PUT of an existing row, from a caller the route admits, whose body
\* gives the empty string for a field the entity requires is answered with
\* success; the field keeps its stored value and the other updatable fields
\* of the body hold the body's values.
C24_EmptyIgnored ==
  [][(/\ last' # Idle
      /\ last'.req.method = "PUT" /\ Len(last'.req.path) = 2
      /\ RouteOf(last'.req) # "none"
      /\ Admitted(last'.req, now)
      /\ last'.req.path[2] \in Ids(db, TableOf(last'.req.path[1]))
      /\ \E c \in Required(TableOf(last'.req.path[1])) : Get(last'.req.body, c) = "")
       => LET t == TableOf(last'.req.path[1])
          IN /\ last'.res.status = 200
             /\ \A r \in db[t] : \A n \in db'[t] :
                  (r.id = last'.req.path[2] /\ n.id = r.id) =>
                    \A c \in Updatable[t] \cap DOMAIN last'.req.body :
                      n[c] = IF last'.req.body[c] = "" THEN r[c]
                             ELSE Stored(c, last'.req.body[c])]_vars

\* The body that names column c alone, with its fresh value.
One(t, c) == [x \in {c} |-> Fresh(SchemaField(UpdateSchema(t), c))]

\* Every reply to req is a success when the clock reads t.
Succeeds(req, t) == \A o \in Handle([State EXCEPT !.now = t], req) : o.res.status = 200

Allowed ==
  [PostUsers |-> {"admin"}, PutUsersId |-> {"admin"}, DeleteUsersId |-> {"admin"},
   GetUsers |-> {"admin", "manager"}, PostClientsImport |-> {"admin", "support"}]

\* One request to every role-checked route, carrying tok.
RoleChecked(tok) ==
  {Request("POST", <<"users">>, tok, EmptyObject, EmptyObject, "none"),
   Request("GET", <<"users">>, tok, EmptyObject, EmptyObject, "none"),
   Put("users", "missing", tok, EmptyObject),
   Request("DELETE", <<"users", "missing">>, tok, EmptyObject, EmptyObject, "none"),
   Request("POST", <<"clients", "import">>, tok, EmptyObject, EmptyObject, "sheet")}

\* C26: where the users table is written and where each role sends its plain
\* requests, between exchanges, and in every state while the admin changes or
\* deletes the manager, whatever role the users table now holds for a token's
\* user and whether or not the user is still there, a token a login has
\* returned passes authenticateToken until it expires, and each role-checked
\* route answers it with 403 Forbidden exactly when the role in the token is
\* not among the roles the route lets through.
C26_TokenRoleRules ==
  \A tok \in issued :
    (/\ focus.scope \in {"users", "access", "stale"}
     /\ now < tok.exp
     /\ last = Idle \/ focus.scope = "stale") =>
      \A req \in RoleChecked(tok) :
        \A o \in Handle(State, req) :
          /\ o.res.type # "text"
          /\ o.res = Message(403, "Forbidden") <=> tok.role \notin Allowed[RouteOf(req)]

\* The admin has deleted the manager; after that the manager's token has
\* listed the users.
C26_Witness ==
  /\ RouteOf(last.req) = "GetUsers"
  /\ last.req.auth.id = "u5" /\ last.req.auth.role = "manager"
  /\ "u5" \notin Ids(db, "users")
  /\ last.res.status = 200

\* C27: a request answered with 401 or 403 leaves every table and the upload
\* directory as they were.
C27_RefusedChangesNothing ==
  [][(last' # Idle /\ last'.res.status \in {401, 403})
       => db' = db /\ storage' = storage]_vars

GetSettings(x, tok) ==
  Request("GET", <<"user-settings", x>>, tok, EmptyObject, EmptyObject, "none")

\* C28: a PUT /api/user-settings/:X that succeeds is followed by a GET of the
\* same X that returns the row just written, and for a user who has a settings
\* row the PUT that names the user's id succeeds.
C28_SettingsSameRow ==
  (last = Idle /\ focus.scope = "user_settings") =>
    \A tok \in issued : \A x \in PathIds("user_settings") :
      \A c \in Updatable["user_settings"] :
        now < tok.exp =>
          \A o \in Handle(State, Put("user_settings", x, tok, One("user_settings", c))) :
            /\ o.res.status = 200 =>
                 \A g \in Handle([State EXCEPT !.db = o.db], GetSettings(x, tok)) :
                   g.res = Json(200, o.res.body)
            /\ (\E r \in db.user_settings : r.user_id = x) => o.res.status = 200

\* What onSuccess of the login view hands to set_auth.
LoggedIn(res) == [token |-> res.body.token, user |-> res.body.user, is_authenticated |-> TRUE]

SameAuth(a, b) ==
  a.is_authenticated = b.is_authenticated /\ a.token = b.token /\ a.user.id = b.user.id

\* C29: every step of the browser session leaves auth alone, or is a login the
\* server answered with 200 and puts that login's (non-empty) token and user
\* into auth with is_authenticated true, or resets auth to the empty default;
\* a logout resets it whatever the server answers; a protected route renders
\* its children exactly while is_authenticated is true, the login route
\* exactly while it is false.
C29_AuthFollowsLogin ==
  [][/\ \/ SameAuth(store'.auth, store.auth)
        \/ /\ RouteOf(last'.req) = "PostAuthLogin" /\ last'.res.status = 200
           /\ store'.auth = LoggedIn(last'.res)
           /\ store'.auth.token.kind = "jwt" /\ store'.auth.token \in issued'
        \/ store'.auth = DefaultStore.auth
     /\ (last = Idle /\ last' # Idle /\ RouteOf(last'.req) = "PostAuthLogout")
          => store'.auth = DefaultStore.auth
     /\ store'.auth.is_authenticated \/ store'.auth = DefaultStore.auth
     /\ store'.auth.is_authenticated => store'.auth.token.kind = "jwt"
     /\ ProtectedRoute(store') = "children" <=> store'.auth.is_authenticated
     /\ PublicRoute(store') = "children" <=> ~store'.auth.is_authenticated]_vars

\* The agent has logged in and then out: the logout call was answered 401 and
\* the store holds the empty auth again.
C29_Witness ==
  /\ event.name = "handleLogout" /\ RouteOf(last.req) = "PostAuthLogout"
  /\ last.res.status = 401
  /\ event.from.auth.is_authenticated /\ event.from.auth.token \in issued
  /\ event.from.auth.user.id = "u2"
  /\ store.auth = DefaultStore.auth

\* The entries of a list whose id is not the given one, in their order.
RECURSIVE OthersOf(_, _)
OthersOf(list, id) ==
  IF list = <<>> THEN <<>>
  ELSE IF Head(list).id = id THEN OthersOf(Tail(list), id)
  ELSE <<Head(list)>> \o OthersOf(Tail(list), id)

SettingsKeys == {"dashboard_preferences", "notification_settings", "configuration"}

====
